---- MODULE Spec2Model ----
(***************************************************************************)
(* Session lifecycle of the BYOC stream SDK: the publisher session         *)
(* (class Stream), the viewer session (class StreamViewer) and the         *)
(* data-stream session (class DataStreamClient), each driven by a caller   *)
(* on a single-threaded event loop.  An async method is a sequence of      *)
(* steps, one per await; between two steps any other handler may run.      *)
(* One behaviour follows one session instance; `kind` is its class.        *)
(***************************************************************************)
EXTENDS Naturals, Integers, Sequences, FiniteSets, Bags, TLC

\* ---- bounds --------------------------------------------------------------
MaxInFlight == 2    \* async calls (start, publish, stop, sampler tick) suspended at once
MaxPc == 1          \* RTCPeerConnection objects (and captured MediaStreams) per publisher behaviour
MaxViewerPc == 2    \* RTCPeerConnection objects per viewer behaviour
MaxLogsBound == 2   \* largest maxLogs option the caller passes
MaxMsgs == 3        \* SSE messages delivered in one behaviour
MaxAttempts == 3    \* largest maxRetries a caller passes to retryWithBackoff / sendWhipOffer
MaxUpdates == 2     \* sendStreamUpdate calls made through Stream.update in one behaviour
MaxSamples == 2     \* stats reports parsed in one behaviour
MaxCandidates == 2  \* ICE candidates the browser finds in one behaviour
MaxClock == 4000    \* ms of time followed after waitForICEGathering is called

\* functions studied on their own: one behaviour follows one call
RetryKinds == {"retryWithBackoff", "sendWhipOffer", "sendWhepOffer"}
ControlKinds == {"startStream", "stopStream", "sendStreamUpdate", "fetchStreamStatus"}
Kinds == {"Stream", "StreamViewer", "DataStreamClient", "Stream.update", "parseStats",
          "waitForICEGathering"}
           \cup RetryKinds \cup ControlKinds
PcIds == 1..MaxPc
ViewerPcIds == 1..MaxViewerPc
MsIds == 1..MaxPc

\* ConnectionStatus (types.ts)
ConnectionStatus == {"disconnected", "connecting", "connected", "error"}

\* RTCPeerConnection as the sessions see it: "new" until the remote answer is
\* applied ("stable"), then the browser reports connected / disconnected /
\* failed; close() makes it "closed" and silences its events.
PcStates == {"unused", "new", "stable", "connected", "disconnected", "failed", "closed"}

\* StreamStartResponse: the session descriptor.  NoDesc stands for null.
NoDesc == [streamId |-> "", stopUrl |-> "", updateUrl |-> ""]
\* what startStream() builds from the gateway's answer: it copies the whip,
\* whep, rtmp, update, status and data URLs and the stream id, never stopUrl
GatewayDescs == {[streamId |-> "stream-123", stopUrl |-> "", updateUrl |-> "update-url"]}
\* what a caller may hand to StreamConfig.updateFromStreamStartResponse
CallerDescs == {[streamId |-> "stream-123", stopUrl |-> "stop-url", updateUrl |-> "update-url"]}

NoPipeline == "null"
Pipelines == {"p"}

VARIABLES
  kind,                 \* class of the session instance under study
  \* --- Stream (publisher) fields
  connectionStatus, streamInfo, currentPipeline, peerConnection, localStream,
  statsInterval, lastStats,
  \* --- StreamConfig
  streamStartResponse, location, eTag,
  \* --- StreamConfig fields set by the constructor
  gatewayUrl, defaultPipeline, iceServers,
  \* --- browser objects
  pcs, tracks,
  \* --- StreamViewer fields
  vConnectionStatus, vPeerConnection, vStatsInterval, vLastStats,
  \* --- DataStreamClient fields
  eventSource, isConnected, logs, maxLogs, logCounter, delivered, errored,
  openSources,          \* EventSource objects created and not closed
  \* --- retryWithBackoff: its options, its locals, what it has done so far
  maxRetries, initialDelay, maxDelay, backoffMultiplier,
  attempt, lastError, rPc, settled, fnCalls, responses, errorMessages, sleeps, timers,
  \* --- a control-plane function: fetch() calls it made, the value it returned
  fetches, returned,
  \* --- Stream.update: where the call is, the sendStreamUpdate calls it made,
  \*     the error it rejected with
  uPc, requests, updateError,
  params,               \* options.params of the latest update() call
  \* --- Stream.parseStats: Date.now(), the report it was given, the
  \*     ConnectionStats it returned, how many times it ran
  now, report, connectionStats, samples,
  \* --- waitForICEGathering: the promise, its timer, ms since the call,
  \*     candidate events delivered, the browser's gathering state, when the
  \*     promise resolved
  icePc, iceTimer, clock, candidates, gathering, resolvedAt,
  \* --- async calls suspended at an await: a bag of [op, pc, on], the method,
  \*     the await it is suspended at, the peer connection it awaits on
  calls,
  \* --- what the last step was: operation, outcome, await it resumed from,
  \*     network request it issued, notifications it emitted
  last

streamVars == <<connectionStatus, streamInfo, currentPipeline, peerConnection, localStream,
                statsInterval, lastStats, streamStartResponse, location, eTag>>
viewerVars == <<vConnectionStatus, vPeerConnection, vStatsInterval, vLastStats>>
dataVars == <<eventSource, isConnected, logs, maxLogs, logCounter, delivered, errored, openSources>>
retryVars == <<maxRetries, initialDelay, maxDelay, backoffMultiplier,
               attempt, lastError, rPc, settled, fnCalls, responses, errorMessages, sleeps, timers>>
controlVars == <<fetches, returned>>
configVars == <<gatewayUrl, defaultPipeline, iceServers>>
updateVars == <<uPc, requests, updateError, params>>
statsVars == <<now, report, connectionStats, samples>>
iceVars == <<icePc, iceTimer, clock, candidates, gathering, resolvedAt>>
vars == <<kind, streamVars, viewerVars, dataVars, retryVars, controlVars, configVars, updateVars, statsVars, iceVars,
          pcs, tracks, calls, last>>

\* ---- helpers -------------------------------------------------------------
Call(op, pc, on) == [op |-> op, pc |-> pc, on |-> on]
Suspended(op, pc) == {c \in BagToSet(calls) : c.op = op /\ c.pc = pc}
CanLaunch == BagCardinality(calls) < MaxInFlight
Launch(c) == calls (+) SetToBag({c})
Retire(c) == calls (-) SetToBag({c})
Move(c, d) == (calls (-) SetToBag({c})) (+) SetToBag({d})

\* The record of a step.  `active` is history: an accepted start() sets it, a
\* stop() call or a failure (a rejection past the entry guard, a failed peer
\* connection) clears it.
Step(op, res, at, req, emits) ==
  [op |-> op, res |-> res, at |-> at, req |-> req, emits |-> emits,
   active |-> CASE op \in {"start", "vstart"} /\ res = "called" -> TRUE
                [] op \in {"stop", "vstop"} -> FALSE
                [] res = "rejected" /\ at # "guard" -> FALSE
                [] res = "failed" -> FALSE
                [] OTHER -> last.active]

Unused(f) == {i \in DOMAIN f : f[i] = "unused"}
Fresh(f) == CHOOSE i \in Unused(f) : \A j \in Unused(f) : i <= j

\* Stream.setStatus / StreamViewer.setStatus: statusChange is emitted only on a change
setStatusEmits(old, new) == IF old # new THEN <<"statusChange:" \o new>> ELSE <<>>

\* RTCPeerConnection.close()
closePc(p, id) == IF id # 0 THEN [p EXCEPT ![id] = "closed"] ELSE p
\* a cleanup that drops the stream without stopping its tracks
stopTracksNoop(t, id) == t
\* MediaStream.getTracks().forEach(track => track.stop())
stopTracks(t, id) == IF id # 0 THEN [t EXCEPT ![id] = "ended"] ELSE t

\* Stream.getStreamInfo
getStreamInfo == IF streamInfo # NoDesc THEN streamInfo ELSE streamStartResponse
\* StreamConfig.getStreamStopUrl
getStreamStopUrl == streamStartResponse.stopUrl

\* Stream.start precondition
startAccepted(status) == status = "disconnected"

\* ---- Stream.cleanup ------------------------------------------------------
\* a cleanup that also resets the WHIP metadata kept in the configuration
cleanupClearsMetadata ==
  /\ statsInterval' = FALSE
  /\ pcs' = closePc(pcs, peerConnection)
  /\ peerConnection' = 0
  /\ tracks' = stopTracks(tracks, localStream)
  /\ localStream' = 0
  /\ streamInfo' = NoDesc
  /\ connectionStatus' = "disconnected"
  /\ currentPipeline' = NoPipeline
  /\ eTag' = ""

\* cleanup() releases what the session holds; it leaves the configuration's
\* WHIP metadata (eTag, link, playbackUrl) as it is
cleanup ==
  /\ statsInterval' = FALSE
  /\ pcs' = closePc(pcs, peerConnection)
  /\ peerConnection' = 0
  /\ tracks' = stopTracks(tracks, localStream)
  /\ localStream' = 0
  /\ streamInfo' = NoDesc
  /\ connectionStatus' = "disconnected"
  /\ currentPipeline' = NoPipeline
  /\ UNCHANGED eTag

\* the catch block of start() and publish(): setStatus('error'), emit error,
\* cleanup(), rethrow
catchEmits == setStatusEmits(connectionStatus, "error") \o <<"error">>
                \o <<"statusChange:disconnected">>

\* ---- Stream.start --------------------------------------------------------
StartCall ==
  /\ kind = "Stream"
  /\ IF ~startAccepted(connectionStatus)
       THEN /\ last' = Step("start", "rejected", "guard", "", <<>>)
            /\ UNCHANGED <<streamVars, pcs, tracks, calls>>
       ELSE /\ CanLaunch
            /\ \E p \in Pipelines :
                 /\ connectionStatus' = "connecting"
                 /\ currentPipeline' = p
                 /\ calls' = Launch(Call("start", "startStream", 0))
                 /\ last' = Step("start", "called", "", "start",
                                 setStatusEmits(connectionStatus, "connecting"))
                 /\ UNCHANGED <<streamInfo, peerConnection, localStream, statsInterval,
                                lastStats, streamStartResponse, location, eTag, pcs, tracks>>
  /\ UNCHANGED <<kind, updateVars, statsVars, iceVars, retryVars, controlVars, configVars, viewerVars, dataVars>>

\* resumption after `await startStream(...)`
StartResume(c) ==
  /\ kind = "Stream"
  /\ c \in Suspended("start", "startStream")
  /\ calls' = Retire(c)
  /\ \/ \E d \in GatewayDescs :
          /\ streamInfo' = d
          /\ streamStartResponse' = d
          /\ connectionStatus' = "connected"
          /\ statsInterval' = TRUE
          /\ last' = Step("start", "resolved", "startStream", "",
                          setStatusEmits(connectionStatus, "connected") \o <<"streamStarted">>)
          /\ UNCHANGED <<currentPipeline, peerConnection, localStream, pcs, tracks, eTag>>
     \/ /\ cleanup
        /\ last' = Step("start", "rejected", "startStream", "", catchEmits)
        /\ UNCHANGED streamStartResponse
  /\ UNCHANGED <<kind, updateVars, statsVars, iceVars, retryVars, controlVars, configVars, lastStats, location, viewerVars, dataVars>>

\* ---- Stream.stop ---------------------------------------------------------
StopCall ==
  /\ kind = "Stream"
  /\ IF streamInfo = NoDesc
       THEN /\ last' = Step("stop", "noop", "guard", "", <<>>)
            /\ UNCHANGED <<streamVars, pcs, tracks, calls>>
       ELSE IF getStreamStopUrl # ""
         THEN /\ CanLaunch
              /\ calls' = Launch(Call("stop", "stopStream", 0))
              /\ last' = Step("stop", "called", "", "stop", <<>>)
              /\ UNCHANGED <<streamVars, pcs, tracks>>
         ELSE /\ cleanup
              /\ last' = Step("stop", "resolved", "", "",
                              setStatusEmits(connectionStatus, "disconnected")
                                \o <<"streamStopped">>)
              /\ UNCHANGED <<lastStats, streamStartResponse, location, calls>>
  /\ UNCHANGED <<kind, updateVars, statsVars, iceVars, retryVars, controlVars, configVars, viewerVars, dataVars>>

\* outcomes of stopStream(): 2xx -> true, 404 -> false, another status or a
\* network failure -> throws
StopOutcomes == {"ok", "404", "status", "network"}

\* a stop() whose catch block rethrows without running cleanup()
StopResumeRethrowsFirst(c) ==
  /\ kind = "Stream"
  /\ c \in Suspended("stop", "stopStream")
  /\ calls' = Retire(c)
  /\ \E o \in StopOutcomes :
       IF o \in {"ok", "404"}
         THEN /\ cleanup
              /\ last' = Step("stop", "resolved", o, "",
                              setStatusEmits(connectionStatus, "disconnected")
                                \o <<"streamStopped">>)
         ELSE /\ last' = Step("stop", "rejected", o, "", <<>>)
              /\ UNCHANGED <<connectionStatus, streamInfo, currentPipeline, peerConnection,
                             localStream, statsInterval, pcs, tracks, eTag>>
  /\ UNCHANGED <<kind, updateVars, statsVars, iceVars, retryVars, controlVars, configVars, lastStats, streamStartResponse, location, viewerVars, dataVars>>

\* resumption after `await stopStream(stopUrl)`
StopResume(c) ==
  /\ kind = "Stream"
  /\ c \in Suspended("stop", "stopStream")
  /\ calls' = Retire(c)
  /\ cleanup
  /\ \E o \in StopOutcomes :
       last' = IF o \in {"ok", "404"}
                 THEN Step("stop", "resolved", o, "",
                           setStatusEmits(connectionStatus, "disconnected") \o <<"streamStopped">>)
                 ELSE Step("stop", "rejected", o, "",
                           setStatusEmits(connectionStatus, "disconnected"))
  /\ UNCHANGED <<kind, updateVars, statsVars, iceVars, retryVars, controlVars, configVars, lastStats, streamStartResponse, location, viewerVars, dataVars>>

\* ---- Stream.publish ------------------------------------------------------
\* the catch block of publish(), entered from the await `at`
PublishCatch(c, at) ==
  /\ cleanup
  /\ calls' = Retire(c)
  /\ last' = Step("publish", "rejected", at, "", catchEmits)
  /\ UNCHANGED location

\* publish() has no precondition: it runs up to `await this.getMediaStream()`
PublishCall ==
  /\ kind = "Stream"
  /\ CanLaunch
  /\ Cardinality(Unused(pcs)) > CopiesIn(Call("publish", "getMedia", 0), calls)
  /\ calls' = Launch(Call("publish", "getMedia", 0))
  /\ last' = Step("publish", "called", "", "", <<>>)
  /\ UNCHANGED <<kind, updateVars, statsVars, iceVars, retryVars, controlVars, configVars, streamVars, pcs, tracks, viewerVars, dataVars>>

\* after getMediaStream(): store the stream, createPeerConnection() (which
\* adds the tracks and the connectionstatechange listener), call createOffer()
PublishMedia(c) ==
  /\ kind = "Stream"
  /\ c \in Suspended("publish", "getMedia")
  /\ \/ LET n == Fresh(pcs)
        IN /\ tracks' = [tracks EXCEPT ![n] = "live"]
           /\ localStream' = n
           /\ pcs' = [pcs EXCEPT ![n] = "new"]
           /\ peerConnection' = n
           /\ calls' = Move(c, Call("publish", "createOffer", n))
           /\ last' = Step("publish", "step", "getMedia", "", <<"mediaStreamReady">>)
           /\ UNCHANGED <<connectionStatus, streamInfo, currentPipeline, statsInterval,
                          location, eTag>>
     \/ PublishCatch(c, "getMedia")
  /\ UNCHANGED <<kind, updateVars, statsVars, iceVars, retryVars, controlVars, configVars, lastStats, streamStartResponse, viewerVars, dataVars>>

\* a step of publish() between two awaits on the peer connection: the awaited
\* call was made on connection c.on; it fails if that connection was closed
\* meanwhile or the browser rejects it; the next call dereferences
\* this.peerConnection, which throws when it is null
PublishAdvance(c, at, next) ==
  /\ kind = "Stream"
  /\ c \in Suspended("publish", at)
  /\ \/ /\ pcs[c.on] # "closed"
        /\ peerConnection # 0
        /\ calls' = Move(c, Call("publish", next, peerConnection))
        /\ last' = Step("publish", "step", at, "", <<>>)
        /\ UNCHANGED <<connectionStatus, streamInfo, currentPipeline, peerConnection,
                       localStream, statsInterval, location, eTag, pcs, tracks>>
     \/ PublishCatch(c, at)
  /\ UNCHANGED <<kind, updateVars, statsVars, iceVars, retryVars, controlVars, configVars, lastStats, streamStartResponse, viewerVars, dataVars>>

PublishOffer(c) == PublishAdvance(c, "createOffer", "setLocal")
PublishLocal(c) == PublishAdvance(c, "setLocal", "ice")

\* waitForICEGathering resolves on the end-of-candidates event or on its
\* timeout; then sendWhipOffer(config.getWhipUrl(), ...) is called
PublishIce(c) ==
  /\ kind = "Stream"
  /\ c \in Suspended("publish", "ice")
  /\ IF peerConnection # 0
       THEN /\ calls' = Move(c, Call("publish", "whip", peerConnection))
            /\ last' = Step("publish", "step", "ice", "whip", <<>>)
            /\ UNCHANGED <<connectionStatus, streamInfo, currentPipeline, peerConnection,
                           localStream, statsInterval, location, eTag, pcs, tracks>>
       ELSE PublishCatch(c, "ice")
  /\ UNCHANGED <<kind, updateVars, statsVars, iceVars, retryVars, controlVars, configVars, lastStats, streamStartResponse, viewerVars, dataVars>>

\* after sendWhipOffer(): setRemoteDescription(answer) on this.peerConnection
PublishWhip(c) ==
  /\ kind = "Stream"
  /\ c \in Suspended("publish", "whip")
  /\ \/ /\ peerConnection # 0
        /\ calls' = Move(c, Call("publish", "setRemote", peerConnection))
        /\ last' = Step("publish", "step", "whip", "", <<>>)
        /\ UNCHANGED <<connectionStatus, streamInfo, currentPipeline, peerConnection,
                       localStream, statsInterval, location, eTag, pcs, tracks>>
     \/ PublishCatch(c, "whip")
  /\ UNCHANGED <<kind, updateVars, statsVars, iceVars, retryVars, controlVars, configVars, lastStats, streamStartResponse, viewerVars, dataVars>>

\* the headers of the WHIP response, all present or all absent
\* (response.locationHeader || "", ...); eTag stands for eTag, link and
\* playbackUrl, which are assigned together
WhipHeaders == {[location |-> "", eTag |-> ""], [location |-> "loc", eTag |-> "etag"]}

\* after setRemoteDescription(): the answer is applied, the response headers
\* are stored in the configuration, publish() resolves
PublishRemote(c) ==
  /\ kind = "Stream"
  /\ c \in Suspended("publish", "setRemote")
  /\ \/ /\ pcs[c.on] # "closed"
        /\ pcs' = [pcs EXCEPT ![c.on] = IF @ = "new" THEN "stable" ELSE @]
        /\ \E h \in WhipHeaders : location' = h.location /\ eTag' = h.eTag
        /\ calls' = Retire(c)
        /\ last' = Step("publish", "resolved", "setRemote", "", <<>>)
        /\ UNCHANGED <<connectionStatus, streamInfo, currentPipeline, peerConnection,
                       localStream, statsInterval, tracks>>
     \/ PublishCatch(c, "setRemote")
  /\ UNCHANGED <<kind, updateVars, statsVars, iceVars, retryVars, controlVars, configVars, lastStats, streamStartResponse, viewerVars, dataVars>>

\* ---- Stream.startStatsMonitoring: the setInterval callback ---------------
\* the callback returns at once without a peer connection, else it awaits
\* getStats() on it
TickBegin ==
  /\ kind = "Stream"
  /\ statsInterval
  /\ IF peerConnection = 0
       THEN /\ last' = Step("tick", "noop", "guard", "", <<>>)
            /\ UNCHANGED calls
       ELSE /\ CanLaunch
            /\ calls' = Launch(Call("tick", "getStats", peerConnection))
            /\ last' = Step("tick", "called", "", "", <<>>)
  /\ UNCHANGED <<kind, updateVars, statsVars, iceVars, retryVars, controlVars, configVars, streamVars, pcs, tracks, viewerVars, dataVars>>

\* after getStats(): parseStats() records the sample when the report has an
\* outbound video entry, then statsUpdate is emitted; a rejection is logged
TickEnd(c) ==
  /\ kind = "Stream"
  /\ c \in Suspended("tick", "getStats")
  /\ calls' = Retire(c)
  /\ \/ \E hasVideo \in BOOLEAN :
          /\ lastStats' = IF hasVideo THEN [lastStats EXCEPT !.time = 1] ELSE lastStats
          /\ last' = Step("tick", "resolved", "getStats", "", <<"statsUpdate">>)
     \/ /\ last' = Step("tick", "logged", "getStats", "", <<>>)
        /\ UNCHANGED lastStats
  /\ UNCHANGED <<kind, updateVars, statsVars, iceVars, retryVars, controlVars, configVars, connectionStatus, streamInfo, currentPipeline, peerConnection,
                 localStream, statsInterval, streamStartResponse, location, eTag,
                 pcs, tracks, viewerVars, dataVars>>

\* ---- connectionstatechange listener of a publisher peer connection -------
\* the browser moves an open connection whose answer is applied
PcTargets(s) == CASE s = "stable" -> {"connected", "failed"}
                  [] s = "connected" -> {"disconnected", "failed"}
                  [] s = "disconnected" -> {"connected", "failed"}
                  [] OTHER -> {}

\* a listener that does not react to a failed connection
listenerStatusIgnoresFailed(pcState, status) ==
  CASE pcState = "connected" -> "connected"
    [] pcState = "disconnected" -> "disconnected"
    [] OTHER -> status

\* the status the listener sets for the connection state it sees
listenerStatus(pcState, status) ==
  CASE pcState = "connected" -> "connected"
    [] pcState = "failed" -> "error"
    [] pcState = "disconnected" -> "disconnected"
    [] OTHER -> status

listenerEmits(pcState, status) ==
  setStatusEmits(status, listenerStatus(pcState, status))
    \o (IF pcState = "failed" THEN <<"error">> ELSE <<>>)

PcStateChange(i) ==
  /\ kind = "Stream"
  /\ \E t \in PcTargets(pcs[i]) :
       /\ pcs' = [pcs EXCEPT ![i] = t]
       /\ connectionStatus' = listenerStatus(t, connectionStatus)
       /\ last' = Step("pc", t, "", "", listenerEmits(t, connectionStatus))
  /\ UNCHANGED <<kind, updateVars, statsVars, iceVars, retryVars, controlVars, configVars, streamInfo, currentPipeline, peerConnection, localStream,
                 statsInterval, lastStats, streamStartResponse, location, eTag, calls,
                 tracks, viewerVars, dataVars>>

\* ---- StreamConfig.updateFromStreamStartResponse, called by the caller ----
updateFromStreamStartResponse(d) ==
  /\ kind = "Stream"
  /\ streamStartResponse' = d
  /\ last' = Step("config", "resolved", "", "", <<>>)
  /\ UNCHANGED <<kind, updateVars, statsVars, iceVars, retryVars, controlVars, configVars, connectionStatus, streamInfo, currentPipeline, peerConnection,
                 localStream, statsInterval, lastStats, location, eTag, calls,
                 pcs, tracks, viewerVars, dataVars>>

\* ==== StreamViewer ========================================================
\* StreamViewer.start precondition
vStartAccepted(status) == status = "disconnected"

\* StreamViewer.cleanup (it also detaches the video sink, which is not modelled)
vCleanup ==
  /\ vStatsInterval' = FALSE
  /\ pcs' = closePc(pcs, vPeerConnection)
  /\ vPeerConnection' = 0
  /\ vConnectionStatus' = "disconnected"

vCatchEmits == setStatusEmits(vConnectionStatus, "error") \o <<"error">>
                 \o <<"statusChange:disconnected">>

\* the catch block of StreamViewer.start(), entered from the await `at`
VStartCatch(c, at) ==
  /\ vCleanup
  /\ calls' = Retire(c)
  /\ last' = Step("vstart", "rejected", at, "", vCatchEmits)

\* start(): guard, setStatus('connecting'), then either no whepUrl (throws
\* into the catch block) or createPeerConnection() and createOffer()
VStartCall ==
  /\ kind = "StreamViewer"
  /\ IF ~vStartAccepted(vConnectionStatus)
       THEN /\ last' = Step("vstart", "rejected", "guard", "", <<>>)
            /\ UNCHANGED <<viewerVars, pcs, calls>>
       ELSE \/ /\ vCleanup
               /\ last' = Step("vstart", "rejected", "whepUrl", "",
                               <<"statusChange:connecting", "statusChange:error", "error",
                                 "statusChange:disconnected">>)
               /\ UNCHANGED calls
            \/ /\ CanLaunch
               /\ Unused(pcs) # {}
               /\ LET n == Fresh(pcs)
                  IN /\ pcs' = [pcs EXCEPT ![n] = "new"]
                     /\ vPeerConnection' = n
                     /\ calls' = Launch(Call("vstart", "createOffer", n))
               /\ vConnectionStatus' = "connecting"
               /\ last' = Step("vstart", "called", "", "",
                               setStatusEmits(vConnectionStatus, "connecting"))
               /\ UNCHANGED vStatsInterval
  /\ UNCHANGED <<kind, updateVars, statsVars, iceVars, retryVars, controlVars, configVars, vLastStats, streamVars, dataVars, tracks>>

\* a step of start() between two awaits on the peer connection
VStartAdvance(c, at, next) ==
  /\ kind = "StreamViewer"
  /\ c \in Suspended("vstart", at)
  /\ \/ /\ pcs[c.on] # "closed"
        /\ vPeerConnection # 0
        /\ calls' = Move(c, Call("vstart", next, vPeerConnection))
        /\ last' = Step("vstart", "step", at, "", <<>>)
        /\ UNCHANGED <<vConnectionStatus, vPeerConnection, vStatsInterval, pcs>>
     \/ VStartCatch(c, at)
  /\ UNCHANGED <<kind, updateVars, statsVars, iceVars, retryVars, controlVars, configVars, vLastStats, streamVars, dataVars, tracks>>

VStartOffer(c) == VStartAdvance(c, "createOffer", "setLocal")
VStartLocal(c) == VStartAdvance(c, "setLocal", "ice")

\* waitForICEGathering always resolves; then sendWhepOffer(whepUrl, ...)
VStartIce(c) ==
  /\ kind = "StreamViewer"
  /\ c \in Suspended("vstart", "ice")
  /\ IF vPeerConnection # 0
       THEN /\ calls' = Move(c, Call("vstart", "whep", vPeerConnection))
            /\ last' = Step("vstart", "step", "ice", "whep", <<>>)
            /\ UNCHANGED <<vConnectionStatus, vPeerConnection, vStatsInterval, pcs>>
       ELSE VStartCatch(c, "ice")
  /\ UNCHANGED <<kind, updateVars, statsVars, iceVars, retryVars, controlVars, configVars, vLastStats, streamVars, dataVars, tracks>>

\* after sendWhepOffer(): setRemoteDescription(answer) on this.peerConnection
VStartWhep(c) ==
  /\ kind = "StreamViewer"
  /\ c \in Suspended("vstart", "whep")
  /\ \/ /\ vPeerConnection # 0
        /\ calls' = Move(c, Call("vstart", "setRemote", vPeerConnection))
        /\ last' = Step("vstart", "step", "whep", "", <<>>)
        /\ UNCHANGED <<vConnectionStatus, vPeerConnection, vStatsInterval, pcs>>
     \/ VStartCatch(c, "whep")
  /\ UNCHANGED <<kind, updateVars, statsVars, iceVars, retryVars, controlVars, configVars, vLastStats, streamVars, dataVars, tracks>>

\* after setRemoteDescription(): setStatus('connected'),
\* startStatsMonitoring(), emit viewingStarted
VStartRemote(c) ==
  /\ kind = "StreamViewer"
  /\ c \in Suspended("vstart", "setRemote")
  /\ \/ /\ pcs[c.on] # "closed"
        /\ pcs' = [pcs EXCEPT ![c.on] = IF @ = "new" THEN "stable" ELSE @]
        /\ vConnectionStatus' = "connected"
        /\ vStatsInterval' = TRUE
        /\ calls' = Retire(c)
        /\ last' = Step("vstart", "resolved", "setRemote", "",
                        setStatusEmits(vConnectionStatus, "connected") \o <<"viewingStarted">>)
        /\ UNCHANGED vPeerConnection
     \/ VStartCatch(c, "setRemote")
  /\ UNCHANGED <<kind, updateVars, statsVars, iceVars, retryVars, controlVars, configVars, vLastStats, streamVars, dataVars, tracks>>

\* StreamViewer.stop: cleanup() and viewingStopped, whatever the state
VStop ==
  /\ kind = "StreamViewer"
  /\ vCleanup
  /\ last' = Step("vstop", "resolved", "", "",
                  setStatusEmits(vConnectionStatus, "disconnected") \o <<"viewingStopped">>)
  /\ UNCHANGED <<kind, updateVars, statsVars, iceVars, retryVars, controlVars, configVars, vLastStats, calls, streamVars, dataVars, tracks>>

\* StreamViewer.startStatsMonitoring: the setInterval callback
VTickBegin ==
  /\ kind = "StreamViewer"
  /\ vStatsInterval
  /\ IF vPeerConnection = 0
       THEN /\ last' = Step("vtick", "noop", "guard", "", <<>>)
            /\ UNCHANGED calls
       ELSE /\ CanLaunch
            /\ calls' = Launch(Call("vtick", "getStats", vPeerConnection))
            /\ last' = Step("vtick", "called", "", "", <<>>)
  /\ UNCHANGED <<kind, updateVars, statsVars, iceVars, retryVars, controlVars, configVars, viewerVars, streamVars, dataVars, pcs, tracks>>

VTickEnd(c) ==
  /\ kind = "StreamViewer"
  /\ c \in Suspended("vtick", "getStats")
  /\ calls' = Retire(c)
  /\ \/ \E hasVideo \in BOOLEAN :
          /\ vLastStats' = IF hasVideo THEN [time |-> 1] ELSE vLastStats
          /\ last' = Step("vtick", "resolved", "getStats", "", <<"statsUpdate">>)
     \/ /\ last' = Step("vtick", "logged", "getStats", "", <<>>)
        /\ UNCHANGED vLastStats
  /\ UNCHANGED <<kind, updateVars, statsVars, iceVars, retryVars, controlVars, configVars, vConnectionStatus, vPeerConnection, vStatsInterval,
                 streamVars, dataVars, pcs, tracks>>

\* connectionstatechange listener of a viewer peer connection
VPcStateChange(i) ==
  /\ kind = "StreamViewer"
  /\ \E t \in PcTargets(pcs[i]) :
       /\ pcs' = [pcs EXCEPT ![i] = t]
       /\ vConnectionStatus' = listenerStatus(t, vConnectionStatus)
       /\ last' = Step("vpc", t, "", "", listenerEmits(t, vConnectionStatus))
  /\ UNCHANGED <<kind, updateVars, statsVars, iceVars, retryVars, controlVars, configVars, vPeerConnection, vStatsInterval, vLastStats, calls,
                 streamVars, dataVars, tracks>>

\* ==== DataStreamClient ====================================================
DefaultMaxLogs == 1000
\* the payload of a message: a JSON object with a type field, one without,
\* the JSON text null, or text that JSON.parse rejects
Payloads == {"typed", "untyped", "null", "invalid"}
\* what the try block throws: JSON.parse on bad text, data.type on null
parseError(payload) == CASE payload = "invalid" -> "SyntaxError"
                         [] payload = "null" -> "TypeError"
                         [] OTHER -> ""
logType(payload) == CASE payload = "typed" -> "custom"
                      [] payload = "untyped" -> "data"
                      [] OTHER -> "raw"
\* the DataLog built by the try block, or by the catch block
logEntry(payload) ==
  IF parseError(payload) = ""
    THEN [id |-> logCounter, type |-> logType(payload), raw |-> "", error |-> ""]
    ELSE [id |-> logCounter, type |-> "raw", raw |-> payload, error |-> parseError(payload)]

\* logs.push(log); if (logs.length > maxLogs) logs.shift()
pushLog(l, entry, max) == IF Len(l) + 1 > max THEN Tail(Append(l, entry)) ELSE Append(l, entry)

\* a guard that looks at the connected flag only
alreadyConnectedFlagOnly == isConnected
\* if (this.isConnected || this.eventSource)
alreadyConnected == isConnected \/ eventSource # "null"

\* connect(options): rejects when connected or holding an EventSource, else
\* stores maxLogs when given, creates the EventSource and resolves
connect ==
  /\ kind = "DataStreamClient"
  /\ IF alreadyConnected
       THEN /\ last' = Step("connect", "rejected", "guard", "", <<>>)
            /\ UNCHANGED <<eventSource, maxLogs, openSources>>
       ELSE /\ \E m \in {0} \cup (1..MaxLogsBound) :
                 maxLogs' = IF m = 0 THEN maxLogs ELSE m
            /\ eventSource' = "connecting"
            /\ openSources' = openSources + 1
            /\ last' = Step("connect", "resolved", "", "sse", <<>>)
  /\ UNCHANGED <<errored, kind, updateVars, statsVars, iceVars, retryVars, controlVars, configVars, isConnected, logs, logCounter, delivered, streamVars, viewerVars,
                 pcs, tracks, calls>>

\* eventSource.onopen
onopen ==
  /\ kind = "DataStreamClient"
  /\ eventSource = "connecting"
  /\ eventSource' = "open"
  /\ isConnected' = TRUE
  /\ last' = Step("onopen", "event", "", "", <<"connected">>)
  /\ UNCHANGED <<errored, openSources, kind, updateVars, statsVars, iceVars, retryVars, controlVars, configVars, logs, maxLogs, logCounter, delivered, streamVars, viewerVars, pcs,
                 tracks, calls>>

\* a handler without the catch block: the exception leaves the handler
onmessageWithoutCatch(payload) ==
  /\ kind = "DataStreamClient"
  /\ eventSource = "open"
  /\ delivered < MaxMsgs
  /\ delivered' = delivered + 1
  /\ IF parseError(payload) = ""
       THEN /\ logs' = pushLog(logs, logEntry(payload), maxLogs)
            /\ logCounter' = logCounter + 1
            /\ last' = Step("onmessage", "event", "", "", <<"data">>)
       ELSE /\ last' = Step("onmessage", "thrown", "", "", <<>>)
            /\ UNCHANGED <<logs, logCounter>>
  /\ UNCHANGED <<errored, openSources, kind, updateVars, statsVars, iceVars, retryVars, controlVars, configVars, eventSource, isConnected, maxLogs, streamVars, viewerVars, pcs,
                 tracks, calls>>
\* eventSource.onmessage
onmessage(payload) ==
  /\ kind = "DataStreamClient"
  /\ eventSource = "open"
  /\ delivered < MaxMsgs
  /\ delivered' = delivered + 1
  /\ logs' = pushLog(logs, logEntry(payload), maxLogs)
  /\ logCounter' = logCounter + 1
  /\ last' = Step("onmessage", "event", "", "",
                  IF parseError(payload) = "" THEN <<"data">> ELSE <<>>)
  /\ UNCHANGED <<errored, openSources, kind, updateVars, statsVars, iceVars, retryVars, controlVars, configVars, eventSource, isConnected, maxLogs, streamVars, viewerVars, pcs,
                 tracks, calls>>

\* a disconnect that also empties the log
disconnectClearsLogs ==
  /\ kind = "DataStreamClient"
  /\ eventSource' = "null"
  /\ openSources' = IF eventSource # "null" THEN openSources - 1 ELSE openSources
  /\ isConnected' = FALSE
  /\ logs' = <<>>
  /\ last' = Step("disconnect", "resolved", "", "", <<"disconnected">>)
  /\ UNCHANGED <<errored, kind, updateVars, statsVars, iceVars, retryVars, controlVars, configVars, maxLogs, logCounter,
                 delivered, streamVars, viewerVars, pcs, tracks, calls>>
\* DataStreamClient.disconnect
disconnect ==
  /\ kind = "DataStreamClient"
  /\ eventSource' = "null"
  /\ openSources' = IF eventSource # "null" THEN openSources - 1 ELSE openSources
  /\ isConnected' = FALSE
  /\ last' = Step("disconnect", "resolved", "", "", <<"disconnected">>)
  /\ UNCHANGED <<errored, kind, updateVars, statsVars, iceVars, retryVars, controlVars, configVars, logs, maxLogs, logCounter, delivered, streamVars, viewerVars, pcs,
                 tracks, calls>>

\* an error handler that reports the error and leaves the EventSource alone
onerrorWithoutDisconnect ==
  /\ kind = "DataStreamClient"
  /\ eventSource # "null"
  /\ isConnected' = FALSE
  /\ errored' = TRUE
  /\ last' = Step("onerror", "event", "", "", <<"error">>)
  /\ UNCHANGED <<eventSource, openSources, kind, updateVars, statsVars, iceVars, retryVars, controlVars, configVars, logs, maxLogs, logCounter,
                 delivered, streamVars, viewerVars, pcs, tracks, calls>>
\* eventSource.onerror: emit error, then disconnect()
onerror ==
  /\ kind = "DataStreamClient"
  /\ eventSource # "null"
  /\ eventSource' = "null"
  /\ openSources' = openSources - 1
  /\ isConnected' = FALSE
  /\ errored' = TRUE
  /\ last' = Step("onerror", "event", "", "", <<"error", "disconnected">>)
  /\ UNCHANGED <<kind, updateVars, statsVars, iceVars, retryVars, controlVars, configVars, logs, maxLogs, logCounter, delivered, streamVars, viewerVars, pcs,
                 tracks, calls>>

\* DataStreamClient.clearLogs
clearLogs ==
  /\ kind = "DataStreamClient"
  /\ logs' = <<>>
  /\ logCounter' = 0
  /\ last' = Step("clearLogs", "resolved", "", "", <<>>)
  /\ UNCHANGED <<errored, openSources, kind, updateVars, statsVars, iceVars, retryVars, controlVars, configVars, eventSource, isConnected, maxLogs, delivered, streamVars,
                 viewerVars, pcs, tracks, calls>>

\* ==== retryWithBackoff, sendWhipOffer, sendWhepOffer ======================
\* what an invocation of fn throws: the invocation it comes from, whether it
\* is an Error instance (else a primitive such as a string), whether it
\* carries nonRetryable, whether it is a wrapper made by retryWithBackoff
NoError == [by |-> 0, instance |-> FALSE, nonRetryable |-> FALSE, wrapped |-> FALSE]
Thrown(n, isError, marked) ==
  [by |-> n, instance |-> isError, nonRetryable |-> marked, wrapped |-> FALSE]

\* a normalisation that wraps whatever was thrown
asErrorAlwaysWraps(e) ==
  [by |-> e.by, instance |-> TRUE, nonRetryable |-> FALSE, wrapped |-> TRUE]
\* error instanceof Error ? error : new Error(String(error))
asError(e) ==
  IF e.instance THEN e
  ELSE [by |-> e.by, instance |-> TRUE, nonRetryable |-> FALSE, wrapped |-> TRUE]

\* new Error('All retry attempts failed')
AllAttemptsFailed == [by |-> 0, instance |-> TRUE, nonRetryable |-> FALSE, wrapped |-> FALSE]

\* Math.pow on the small integers used here
RECURSIVE pow(_, _)
pow(b, e) == IF e = 0 THEN 1 ELSE b * pow(b, e - 1)
min(a, b) == IF a <= b THEN a ELSE b

\* a backoff whose exponent is the attempt number
backoffDelayFromAttempt(n) == min(initialDelay * pow(backoffMultiplier, n), maxDelay)
\* Math.min(_initialDelay * Math.pow(_backoffMultiplier, attempt - 1), _maxDelay)
backoffDelay(n) == min(initialDelay * pow(backoffMultiplier, n - 1), maxDelay)

\* what fetch() gives the WHIP / WHEP operation: a response with a status, or
\* a rejection whose message contains 'Network' or does not
HttpStatuses == {200, 201, 404, 500}
NetworkMessages == {"NetworkError when attempting to fetch resource.", "Failed to fetch"}
\* response.text() of an error response: empty, some text, or unreadable
ErrorBodies == {"", "no such session", "unreadable"}
FetchOutcomes == [status : {st \in HttpStatuses : st < 300}, message : {""}, body : {"sdp"}]
                   \cup [status : {st \in HttpStatuses : st >= 300}, message : {""}, body : ErrorBodies]
                   \cup [status : {0}, message : NetworkMessages, body : {""}]
rejected(r) == r.status = 0
\* e.message.includes('Network')
mentionsNetwork(msg) == msg = "NetworkError when attempting to fetch resource."

\* the outcome of one invocation of the operation retryWithBackoff is given:
\* "ok", or what it throws.  A caller's operation resolves or throws an Error
\* (marked or not) or a primitive; the WHIP / WHEP operation maps the outcome
\* of its single fetch().
GenericOutcomes == {"ok", "Error", "nonRetryable", "string"}
\* an operation that marks every error status, 5xx included
whipOutcomeMarksServerErrors(r) ==
  CASE rejected(r) -> IF mentionsNetwork(r.message) THEN "nonRetryable" ELSE "Error"
    [] r.status = 201 -> "ok"
    [] r.status >= 400 -> "nonRetryable"
    [] OTHER -> "Error"
\* sendWhipOffer's operation: only 201 is success
whipOutcome(r) ==
  CASE rejected(r) -> IF mentionsNetwork(r.message) THEN "nonRetryable" ELSE "Error"
    [] r.status = 201 -> "ok"
    [] r.status >= 400 /\ r.status < 500 -> "nonRetryable"
    [] OTHER -> "Error"
\* an operation for which only 200 is success
whepOutcomeOnly200(r) ==
  CASE rejected(r) -> IF mentionsNetwork(r.message) THEN "nonRetryable" ELSE "Error"
    [] r.status = 200 -> "ok"
    [] r.status >= 400 /\ r.status < 500 -> "nonRetryable"
    [] OTHER -> "Error"
\* sendWhepOffer's operation: response.ok is success
whepOutcome(r) ==
  CASE rejected(r) -> IF mentionsNetwork(r.message) THEN "nonRetryable" ELSE "Error"
    [] r.status >= 200 /\ r.status <= 299 -> "ok"
    [] r.status >= 400 /\ r.status < 500 -> "nonRetryable"
    [] OTHER -> "Error"

\* the inputs of an invocation and the outcome each gives
FnInputs == IF kind = "retryWithBackoff" THEN GenericOutcomes ELSE FetchOutcomes
fnOutcome(r) == CASE kind = "sendWhipOffer" -> whipOutcome(r)
                  [] kind = "sendWhepOffer" -> whepOutcome(r)
                  [] OTHER -> r

\* the message of the error an invocation throws: the rejection's own, or
\* `${name} offer failed. Status: ${status}` with `, Response: ${errorBody}`
\* when the body could be read and is not empty
errorBody(r) == IF r.body = "unreadable" THEN "" ELSE r.body
offerErrorMessage(name, r) ==
  IF rejected(r) THEN [text |-> r.message, status |-> 0, response |-> ""]
  ELSE [text |-> name, status |-> r.status, response |-> errorBody(r)]
fnErrorMessage(r) ==
  CASE kind = "sendWhipOffer" -> offerErrorMessage("WHIP offer failed.", r)
    [] kind = "sendWhepOffer" -> offerErrorMessage("WHEP offer failed.", r)
    [] OTHER -> [text |-> r, status |-> 0, response |-> ""]

\* retryWithBackoff(fn, options) up to its first await: the loop is entered
\* when 1 <= maxRetries and fn is invoked, else the function throws
retryWithBackoff ==
  /\ kind \in RetryKinds
  /\ rPc = "idle"
  /\ IF 1 <= maxRetries
       THEN /\ attempt' = 1
            /\ fnCalls' = 1
            /\ rPc' = "fn"
            /\ last' = Step("retry", "called", "", "", <<>>)
            /\ UNCHANGED settled
       ELSE /\ rPc' = "done"
            /\ settled' = [res |-> "rejected", err |-> AllAttemptsFailed]
            /\ last' = Step("retry", "rejected", "guard", "", <<>>)
            /\ UNCHANGED <<attempt, fnCalls>>
  /\ UNCHANGED <<kind, updateVars, statsVars, iceVars, streamVars, viewerVars, dataVars, configVars, controlVars, pcs, tracks, calls,
                 maxRetries, initialDelay, maxDelay, backoffMultiplier,
                 lastError, responses, errorMessages, sleeps, timers>>

\* a catch block without the nonRetryable test
rethrowsOnLastAttemptOnly(e) == attempt = maxRetries
\* a catch block without the last-attempt test: it sleeps once more, and the
\* loop then ends
rethrowsOnMarkOnly(e) == e.nonRetryable
\* the catch block rethrows at once when the error is marked nonRetryable or
\* the attempt was the last one
rethrows(e) == e.nonRetryable \/ attempt = maxRetries

\* resumption after `await fn()`: return its value, or catch what it threw:
\* rethrow when marked nonRetryable or on the last attempt, else sleep(delay)
fnSettles(r) ==
  /\ kind \in RetryKinds
  /\ rPc = "fn"
  /\ responses' = Append(responses, r)
  /\ errorMessages' = IF fnOutcome(r) = "ok" THEN errorMessages
                       ELSE Append(errorMessages, fnErrorMessage(r))
  /\ IF fnOutcome(r) = "ok"
       THEN /\ rPc' = "done"
            /\ settled' = [res |-> "resolved", err |-> NoError]
            /\ last' = Step("retry", "resolved", "fn", "", <<>>)
            /\ UNCHANGED <<lastError, sleeps, timers>>
       ELSE LET e == asError(Thrown(fnCalls, fnOutcome(r) # "string",
                                    fnOutcome(r) = "nonRetryable"))
            IN /\ lastError' = e
               /\ IF rethrows(e)
                    THEN /\ rPc' = "done"
                         /\ settled' = [res |-> "rejected", err |-> e]
                         /\ last' = Step("retry", "rejected", "fn", "", <<>>)
                         /\ UNCHANGED <<sleeps, timers>>
                    ELSE /\ sleeps' = Append(sleeps, backoffDelay(attempt))
                         /\ timers' = timers + 1
                         /\ rPc' = "sleep"
                         /\ last' = Step("retry", "step", "fn", "", <<>>)
                         /\ UNCHANGED settled
  /\ UNCHANGED <<kind, updateVars, statsVars, iceVars, streamVars, viewerVars, dataVars, configVars, controlVars, pcs, tracks, calls,
                 maxRetries, initialDelay, maxDelay, backoffMultiplier, attempt, fnCalls>>

\* the setTimeout of sleep() fires: attempt++, and fn is invoked again while
\* attempt <= maxRetries, else the function throws lastError
timerFires ==
  /\ kind \in RetryKinds
  /\ rPc = "sleep"
  /\ timers' = timers - 1
  /\ attempt' = attempt + 1
  /\ IF attempt + 1 <= maxRetries
       THEN /\ fnCalls' = fnCalls + 1
            /\ rPc' = "fn"
            /\ last' = Step("retry", "step", "sleep", "", <<>>)
            /\ UNCHANGED settled
       ELSE /\ rPc' = "done"
            /\ settled' = [res |-> "rejected", err |-> lastError]
            /\ last' = Step("retry", "rejected", "sleep", "", <<>>)
            /\ UNCHANGED fnCalls
  /\ UNCHANGED <<kind, updateVars, statsVars, iceVars, streamVars, viewerVars, dataVars, configVars, controlVars, pcs, tracks, calls,
                 maxRetries, initialDelay, maxDelay, backoffMultiplier,
                 lastError, responses, errorMessages, sleeps>>

\* ==== control plane: startStream, stopStream, sendStreamUpdate, fetchStreamStatus
\* what each function does with the outcome of its fetch(): the value it
\* returns, or "throws"
startStreamOutcome(r) ==
  IF rejected(r) THEN "throws"
  ELSE IF r.status >= 200 /\ r.status <= 299 THEN "descriptor" ELSE "throws"
stopStreamOutcome(r) ==
  IF rejected(r) THEN "throws"
  ELSE IF r.status >= 200 /\ r.status <= 299 THEN "true"
  ELSE IF r.status = 404 THEN "false" ELSE "throws"
sendStreamUpdateOutcome(r) ==
  IF rejected(r) THEN "throws"
  ELSE IF r.status = 200 THEN "true" ELSE "throws"
fetchStreamStatusOutcome(r) ==
  IF rejected(r) THEN "throws"
  ELSE IF r.status >= 200 /\ r.status <= 299 THEN "data" ELSE "throws"
controlOutcome(r) ==
  CASE kind = "startStream" -> startStreamOutcome(r)
    [] kind = "stopStream" -> stopStreamOutcome(r)
    [] kind = "sendStreamUpdate" -> sendStreamUpdateOutcome(r)
    [] OTHER -> fetchStreamStatusOutcome(r)

\* the function is called: it builds its request and awaits fetch()
controlCall ==
  /\ kind \in ControlKinds
  /\ rPc = "idle"
  /\ rPc' = "fetch"
  /\ fetches' = fetches + 1
  /\ last' = Step(kind, "called", "", kind, <<>>)
  /\ UNCHANGED <<kind, updateVars, statsVars, iceVars, streamVars, viewerVars, dataVars, configVars, pcs, tracks, calls,
                 maxRetries, initialDelay, maxDelay, backoffMultiplier, attempt,
                 lastError, settled, fnCalls, responses, errorMessages, sleeps, timers, returned>>

\* a function that calls fetch() again when the request failed, up to 3 times
controlSettlesWithRetry(r) ==
  /\ kind \in ControlKinds
  /\ rPc = "fetch"
  /\ responses' = Append(responses, r)
  /\ UNCHANGED errorMessages
  /\ IF controlOutcome(r) = "throws" /\ fetches < 3
       THEN /\ fetches' = fetches + 1
            /\ last' = Step(kind, "step", "fetch", kind, <<>>)
            /\ UNCHANGED <<rPc, settled, returned>>
       ELSE /\ rPc' = "done"
            /\ fetches' = fetches
            /\ returned' = controlOutcome(r)
            /\ settled' = [res |-> IF controlOutcome(r) = "throws" THEN "rejected"
                                   ELSE "resolved",
                           err |-> NoError]
            /\ last' = Step(kind, settled'.res, "fetch", "", <<>>)
  /\ UNCHANGED <<kind, updateVars, statsVars, iceVars, streamVars, viewerVars, dataVars, configVars, pcs, tracks, calls,
                 maxRetries, initialDelay, maxDelay, backoffMultiplier, attempt,
                 lastError, fnCalls, sleeps, timers>>

\* resumption after `await fetch(...)`: the function returns or throws
controlSettles(r) ==
  /\ kind \in ControlKinds
  /\ rPc = "fetch"
  /\ responses' = Append(responses, r)
  /\ UNCHANGED errorMessages
  /\ rPc' = "done"
  /\ returned' = controlOutcome(r)
  /\ settled' = [res |-> IF controlOutcome(r) = "throws" THEN "rejected" ELSE "resolved",
                 err |-> NoError]
  /\ last' = Step(kind, settled'.res, "fetch", "", <<>>)
  /\ UNCHANGED <<kind, updateVars, statsVars, iceVars, streamVars, viewerVars, dataVars, configVars, pcs, tracks, calls,
                 maxRetries, initialDelay, maxDelay, backoffMultiplier, attempt,
                 lastError, fnCalls, sleeps, timers, fetches>>

\* ==== Stream.update =======================================================
\* the session a call to update() finds: started by the gateway with or
\* without an update URL
UpdateDescs == GatewayDescs \cup {[streamId |-> "stream-123", stopUrl |-> "", updateUrl |-> ""]}
\* options.params as key/value pairs (absent params count as none)
ParamPairs == {<<"width", "1920">>, <<"height", "1080">>, <<"prompts", "keep-me">>}
UpdateParams == SUBSET ParamPairs
immutableFields == {"width", "height"}

\* StreamError(message, code)
NoUpdateError == [message |-> "", code |-> ""]
NoActiveStream == [message |-> "No active stream to update", code |-> ""]
InvalidUpdateParams ==
  [message |-> "No mutable parameters provided for update. Restart the stream to change resolution.",
   code |-> "INVALID_UPDATE_PARAMS"]
NoPipelineConfigured ==
  [message |-> "No pipeline configured for update. Provide config.defaultPipeline or include a pipeline when starting the stream.",
   code |-> ""]
FailedToUpdate == [message |-> "Failed to update stream", code |-> ""]

\* a sanitizer that removes width only
sanitizeWidthOnly(ps) == {p \in ps : p[1] # "width"}
\* a sanitizer that removes nothing
sanitizeNothing(ps) == ps
\* { ...params } minus the immutable fields
sanitize(ps) == {p \in ps : p[1] \notin immutableFields}

\* a resolver that falls back to the absent name instead of throwing
resolveActivePipelineNeverThrows ==
  [pipeline |-> IF currentPipeline # NoPipeline THEN currentPipeline ELSE defaultPipeline,
   throws |-> FALSE]
\* this.currentPipeline || this.config.defaultPipeline, else throw
resolveActivePipeline ==
  [pipeline |-> IF currentPipeline # NoPipeline THEN currentPipeline ELSE defaultPipeline,
   throws |-> currentPipeline = NoPipeline /\ defaultPipeline = NoPipeline]

\* update(options) up to `await sendStreamUpdate(...)`
update(ps) ==
  /\ kind = "Stream.update"
  /\ uPc = "idle"
  /\ Len(requests) < MaxUpdates
  /\ params' = ps
  /\ IF streamInfo = NoDesc \/ streamInfo.updateUrl = "" \/ streamInfo.streamId = ""
       THEN /\ updateError' = NoActiveStream
            /\ last' = Step("update", "rejected", "guard", "", <<>>)
            /\ UNCHANGED <<uPc, requests>>
       ELSE IF sanitize(ps) = {}
       THEN /\ updateError' = InvalidUpdateParams
            /\ last' = Step("update", "rejected", "guard", "", <<>>)
            /\ UNCHANGED <<uPc, requests>>
       ELSE IF resolveActivePipeline.throws
       THEN /\ updateError' = NoPipelineConfigured
            /\ last' = Step("update", "rejected", "guard", "", <<"error">>)
            /\ UNCHANGED <<uPc, requests>>
       ELSE /\ uPc' = "sendStreamUpdate"
            /\ requests' = Append(requests, [updateUrl |-> streamInfo.updateUrl,
                                             streamId |-> streamInfo.streamId,
                                             pipeline |-> resolveActivePipeline.pipeline,
                                             updateData |-> sanitize(ps)])
            /\ updateError' = NoUpdateError
            /\ last' = Step("update", "called", "", "update", <<>>)
  /\ UNCHANGED <<kind, statsVars, iceVars, streamVars, viewerVars, dataVars, retryVars, controlVars, configVars,
                 pcs, tracks, calls>>

\* update(options) after `await sendStreamUpdate(...)`
updateSettles(r) ==
  /\ kind = "Stream.update"
  /\ uPc = "sendStreamUpdate"
  /\ uPc' = "idle"
  /\ IF sendStreamUpdateOutcome(r) = "true"
       THEN /\ last' = Step("update", "resolved", "sendStreamUpdate", "", <<"streamUpdated">>)
            /\ UNCHANGED updateError
       ELSE /\ updateError' = FailedToUpdate
            /\ last' = Step("update", "rejected", "sendStreamUpdate", "", <<"error">>)
  /\ UNCHANGED <<kind, statsVars, iceVars, streamVars, viewerVars, dataVars, retryVars, controlVars, configVars,
                 pcs, tracks, calls, requests, params>>

\* ==== Stream.parseStats ===================================================
\* milliseconds between two readings of Date.now()
TimeDeltas == {0, 16, 1000}
\* the report getStats() resolves with: no outbound video entry ("none"), or
\* one whose counters grew by these amounts, with or without frame size
ByteDeltas == {1, 2063}
FrameDeltas == {1, 20}
FrameSizes == {[frameWidth |-> 0, frameHeight |-> 0], [frameWidth |-> 640, frameHeight |-> 480]}
NoReport == [type |-> "none", bytesSent |-> 0, framesEncoded |-> 0, frameWidth |-> 0, frameHeight |-> 0]
Reports ==
  {NoReport} \cup
  {[type |-> "outbound-rtp", bytesSent |-> lastStats.bytes + d, framesEncoded |-> lastStats.frameCount + f,
    frameWidth |-> z.frameWidth, frameHeight |-> z.frameHeight] :
     d \in ByteDeltas, f \in FrameDeltas, z \in FrameSizes}

\* a rounding that drops the fraction
roundDown(n, d) == n \div d
\* Math.round(n / d) for d > 0: the nearest integer, halves upwards
round(n, d) == (2 * n + d) \div (2 * d)

\* `${stat.frameWidth}x${stat.frameHeight}` stands as the pair, '' as <<>>
resolutionOf(stat) ==
  IF stat.frameWidth # 0 /\ stat.frameHeight # 0 THEN <<stat.frameWidth, stat.frameHeight>> ELSE <<>>

\* parseStats(stats) at time now + dt (ms): timeDelta = dt / 1000, so
\* bytes * 8 / timeDelta / 1000 is bytes * 8 / dt and frames / timeDelta is
\* frames * 1000 / dt
parseStats(dt, stat) ==
  /\ kind = "parseStats"
  /\ samples < MaxSamples
  /\ samples' = samples + 1
  /\ now' = now + dt
  /\ report' = stat
  /\ IF stat.type = "outbound-rtp"
       THEN /\ connectionStats' =
                 [bitrate |-> IF lastStats.time > 0 /\ now' - lastStats.time > 0
                              THEN round((stat.bytesSent - lastStats.bytes) * 8, now' - lastStats.time)
                              ELSE 0,
                  fps |-> IF lastStats.time > 0 /\ now' - lastStats.time > 0
                          THEN round((stat.framesEncoded - lastStats.frameCount) * 1000,
                                     now' - lastStats.time)
                          ELSE 0,
                  resolution |-> resolutionOf(stat)]
            /\ lastStats' = [time |-> now', bytes |-> stat.bytesSent, frameCount |-> stat.framesEncoded]
       ELSE /\ connectionStats' = [bitrate |-> 0, fps |-> 0, resolution |-> <<>>]
            /\ UNCHANGED lastStats
  /\ last' = Step("parseStats", "resolved", "", "", <<"statsUpdate">>)
  /\ UNCHANGED <<kind, updateVars, iceVars, viewerVars, dataVars, retryVars, controlVars, configVars,
                 connectionStatus, streamInfo, currentPipeline, peerConnection, localStream,
                 statsInterval, streamStartResponse, location, eTag, pcs, tracks, calls>>

\* ==== waitForICEGathering (Stream and StreamViewer: the same code) ========
\* setTimeout(..., 3000)
IceTimeoutMs == 3000
\* the clock advances in steps of TickMs
TickMs == 500
\* event.candidate of an icecandidate event: a candidate, or null at the end
Candidates == {"candidate", "null"}

\* waitForICEGathering(pc): the executor arms the timer and adds the listener
waitForICEGathering ==
  /\ kind = "waitForICEGathering"
  /\ icePc = "idle"
  /\ icePc' = "waiting"
  /\ iceTimer' = "pending"
  /\ last' = Step("waitForICEGathering", "called", "", "", <<>>)
  /\ UNCHANGED <<kind, updateVars, statsVars, streamVars, viewerVars, dataVars, retryVars,
                 controlVars, configVars, pcs, tracks, calls,
                 clock, candidates, gathering, resolvedAt>>

\* resolve(): settles the promise the first time it is called
resolveAt(t) ==
  /\ icePc' = "resolved"
  /\ resolvedAt' = IF icePc = "waiting" THEN t ELSE resolvedAt

\* a listener that clears the timer on every icecandidate event
icecandidateClearsOnAny(cand) ==
  /\ kind = "waitForICEGathering"
  /\ gathering = "gathering"
  /\ gathering' = IF cand = "null" THEN "complete" ELSE gathering
  /\ IF cand = "null" THEN UNCHANGED candidates
     ELSE candidates < MaxCandidates /\ candidates' = candidates + 1
  /\ IF icePc = "idle"
       THEN UNCHANGED <<icePc, iceTimer, resolvedAt>>
       ELSE /\ iceTimer' = IF iceTimer = "pending" THEN "cleared" ELSE iceTimer
            /\ IF cand = "null" THEN resolveAt(clock) ELSE UNCHANGED <<icePc, resolvedAt>>
  /\ last' = Step("icecandidate", "event", "", "", <<>>)
  /\ UNCHANGED <<kind, updateVars, statsVars, streamVars, viewerVars, dataVars, retryVars,
                 controlVars, configVars, pcs, tracks, calls, clock>>
\* the browser delivers an icecandidate event while it gathers; the listener,
\* once added, clears the timer and resolves on the null candidate
icecandidate(cand) ==
  /\ kind = "waitForICEGathering"
  /\ gathering = "gathering"
  /\ gathering' = IF cand = "null" THEN "complete" ELSE gathering
  /\ IF cand = "null" THEN UNCHANGED candidates
     ELSE candidates < MaxCandidates /\ candidates' = candidates + 1
  /\ IF icePc # "idle" /\ cand = "null"
       THEN /\ iceTimer' = IF iceTimer = "pending" THEN "cleared" ELSE iceTimer
            /\ resolveAt(clock)
       ELSE UNCHANGED <<icePc, iceTimer, resolvedAt>>
  /\ last' = Step("icecandidate", "event", "", "", <<>>)
  /\ UNCHANGED <<kind, updateVars, statsVars, streamVars, viewerVars, dataVars, retryVars,
                 controlVars, configVars, pcs, tracks, calls, clock>>

\* time passes since the call, but not past a timer that is due
iceTick ==
  /\ kind = "waitForICEGathering"
  /\ icePc # "idle"
  /\ clock < MaxClock
  /\ ~(iceTimer = "pending" /\ clock >= IceTimeoutMs)
  /\ clock' = clock + TickMs
  /\ last' = Step("tick", "event", "", "", <<>>)
  /\ UNCHANGED <<kind, updateVars, statsVars, streamVars, viewerVars, dataVars, retryVars,
                 controlVars, configVars, pcs, tracks, calls,
                 icePc, iceTimer, candidates, gathering, resolvedAt>>

\* the timer callback: resolve()
iceTimeout ==
  /\ kind = "waitForICEGathering"
  /\ iceTimer = "pending"
  /\ clock >= IceTimeoutMs
  /\ iceTimer' = "fired"
  /\ resolveAt(clock)
  /\ last' = Step("timeout", "event", "", "", <<>>)
  /\ UNCHANGED <<kind, updateVars, statsVars, streamVars, viewerVars, dataVars, retryVars,
                 controlVars, configVars, pcs, tracks, calls,
                 clock, candidates, gathering>>

\* ==== the system ==========================================================
IceNext ==
  \/ waitForICEGathering
  \/ \E cand \in Candidates : icecandidate(cand)
  \/ iceTick
  \/ iceTimeout

Init ==
  /\ kind \in Kinds
  /\ connectionStatus = "disconnected"
  /\ streamStartResponse \in (CASE kind = "Stream" -> {NoDesc} \cup CallerDescs
                                [] kind = "Stream.update" -> {NoDesc} \cup UpdateDescs
                                [] OTHER -> {NoDesc})
  /\ streamInfo = streamStartResponse
  /\ location = ""
  /\ eTag = ""
  /\ gatewayUrl = "https://gateway"
  /\ defaultPipeline \in (IF kind = "Stream.update" THEN {NoPipeline} \cup Pipelines ELSE Pipelines)
  /\ iceServers = "default"
  /\ currentPipeline \in (IF kind = "Stream.update" /\ streamInfo # NoDesc
                           THEN {NoPipeline} \cup Pipelines ELSE {NoPipeline})
  /\ peerConnection = 0
  /\ localStream = 0
  /\ statsInterval = FALSE
  /\ lastStats = [time |-> 0, bytes |-> 0, frameCount |-> 0]
  /\ now = 1000
  /\ report = NoReport
  /\ connectionStats = [bitrate |-> 0, fps |-> 0, resolution |-> <<>>]
  /\ samples = 0
  /\ icePc = "idle"
  /\ iceTimer = "none"
  /\ clock = 0
  /\ candidates = 0
  /\ gathering = "gathering"
  /\ resolvedAt = 0
  /\ calls = EmptyBag
  /\ pcs = [i \in (IF kind = "StreamViewer" THEN ViewerPcIds ELSE PcIds) |-> "unused"]
  /\ tracks = [i \in MsIds |-> "unused"]
  /\ vConnectionStatus = "disconnected"
  /\ vPeerConnection = 0
  /\ vStatsInterval = FALSE
  /\ vLastStats = [time |-> 0]
  /\ eventSource = "null"
  /\ isConnected = FALSE
  /\ errored = FALSE
  /\ logs = <<>>
  /\ maxLogs = DefaultMaxLogs
  /\ logCounter = 0
  /\ delivered = 0
  /\ openSources = 0
  /\ maxRetries \in (IF kind \in RetryKinds THEN 0..MaxAttempts ELSE {3})
  /\ initialDelay \in (IF kind = "retryWithBackoff" THEN {10, 1000} ELSE {1000})
  /\ maxDelay \in (IF kind = "retryWithBackoff" THEN {120, 5000} ELSE {5000})
  /\ backoffMultiplier \in (IF kind = "retryWithBackoff" THEN {1, 2, 10} ELSE {2})
  /\ attempt = 0
  /\ lastError = NoError
  /\ rPc = "idle"
  /\ settled = [res |-> "pending", err |-> NoError]
  /\ fnCalls = 0
  /\ responses = <<>>
  /\ errorMessages = <<>>
  /\ sleeps = <<>>
  /\ timers = 0
  /\ fetches = 0
  /\ returned = "none"
  /\ uPc = "idle"
  /\ requests = <<>>
  /\ updateError = NoUpdateError
  /\ params = {}
  /\ last = [op |-> "new", res |-> "resolved", at |-> "", req |-> "", emits |-> <<>>,
             active |-> FALSE]

Next ==
  \/ StartCall
  \/ \E c \in BagToSet(calls) : StartResume(c)
  \/ PublishCall
  \/ \E c \in BagToSet(calls) : PublishMedia(c)
  \/ \E c \in BagToSet(calls) : PublishOffer(c)
  \/ \E c \in BagToSet(calls) : PublishLocal(c)
  \/ \E c \in BagToSet(calls) : PublishIce(c)
  \/ \E c \in BagToSet(calls) : PublishWhip(c)
  \/ \E c \in BagToSet(calls) : PublishRemote(c)
  \/ StopCall
  \/ \E c \in BagToSet(calls) : StopResume(c)
  \/ TickBegin
  \/ \E c \in BagToSet(calls) : TickEnd(c)
  \/ \E i \in PcIds : PcStateChange(i)
  \/ \E d \in CallerDescs : updateFromStreamStartResponse(d)
  \/ VStartCall
  \/ \E c \in BagToSet(calls) : VStartOffer(c)
  \/ \E c \in BagToSet(calls) : VStartLocal(c)
  \/ \E c \in BagToSet(calls) : VStartIce(c)
  \/ \E c \in BagToSet(calls) : VStartWhep(c)
  \/ \E c \in BagToSet(calls) : VStartRemote(c)
  \/ VStop
  \/ VTickBegin
  \/ \E c \in BagToSet(calls) : VTickEnd(c)
  \/ \E i \in ViewerPcIds : VPcStateChange(i)
  \/ connect
  \/ onopen
  \/ \E p \in Payloads : onmessage(p)
  \/ disconnect
  \/ onerror
  \/ clearLogs
  \/ retryWithBackoff
  \/ \E r \in FnInputs : fnSettles(r)
  \/ timerFires
  \/ controlCall
  \/ \E r \in FetchOutcomes : controlSettles(r)
  \/ \E ps \in UpdateParams : update(ps)
  \/ \E r \in FetchOutcomes : updateSettles(r)
  \/ \E dt \in TimeDeltas, stat \in Reports : parseStats(dt, stat)
  \/ IceNext

Spec == Init /\ [][Next]_vars

\* the wait on its own: the event loop lets time pass and runs a due timer
IceInit == Init /\ kind = "waitForICEGathering"
IceSpec == IceInit /\ [][IceNext]_vars /\ WF_vars(iceTick) /\ WF_vars(iceTimeout)

TypeOK ==
  /\ kind \in Kinds
  /\ connectionStatus \in ConnectionStatus
  /\ vConnectionStatus \in ConnectionStatus
  /\ peerConnection \in 0..MaxPc
  /\ vPeerConnection \in 0..MaxViewerPc
  /\ localStream \in 0..MaxPc
  /\ \A i \in DOMAIN pcs : pcs[i] \in PcStates
  /\ BagCardinality(calls) <= MaxInFlight
  /\ Len(logs) <= MaxMsgs

\* ==== properties ==========================================================
\* the state of the session under study
status == IF kind = "Stream" THEN connectionStatus ELSE vConnectionStatus
sessionFields == <<connectionStatus, streamInfo, currentPipeline, peerConnection,
                   localStream, statsInterval, lastStats, streamStartResponse, location, eTag,
                   vConnectionStatus, vPeerConnection, vStatsInterval, vLastStats,
                   pcs, tracks>>
InFlight(ops) == {c \in BagToSet(calls) : c.op \in ops}
Emitted(l, e) == \E i \in 1..Len(l.emits) : l.emits[i] = e

\* the step is the entry of start() (accepted, refused by the guard, or
\* failed before its first await), of stop() / disconnect(), a failure
IsStartCall(l) == l.op \in {"start", "vstart"} /\ (l.res = "called" \/ l.at \in {"guard", "whepUrl"})
IsStopCall(l) == l.op \in {"stop", "vstop", "disconnect"} /\ l.at \in {"", "guard"}
IsFailure(l) == l.res \in {"rejected", "failed"}
\* a start(), publish() or stop() call settled by rejecting past its guard
RejectedPastGuard(l, ops) == l.op \in ops /\ l.res = "rejected" /\ l.at # "guard"

\* the step released what the publisher held: timer, connection, tracks, descriptor
CleanedUp ==
  /\ ~statsInterval'
  /\ peerConnection' = 0
  /\ peerConnection # 0 => pcs'[peerConnection] = "closed"
  /\ localStream' = 0
  /\ localStream # 0 => tracks'[localStream] = "ended"
  /\ streamInfo' = NoDesc

\* C1: a start() call that follows an accepted start() with no stop() and no
\* failure in between is refused by the guard and changes nothing of the
\* session (state, descriptor, connection, tracks, timer).
C1_SecondStartRejected ==
  [][(last.active /\ IsStartCall(last'))
       => (last'.res = "rejected" /\ last'.at = "guard" /\ UNCHANGED sessionFields)]_vars

\* C2: a start() call made while an earlier start() of the instance is
\* suspended at an await is refused by the guard: it never runs beside it.
C2_NoConcurrentStart ==
  [][(InFlight({"start", "vstart"}) # {} /\ IsStartCall(last'))
       => (last'.res = "rejected" /\ last'.at = "guard")]_vars

\* C3: when start() or publish() of the publisher rejects after any of its
\* steps failed, the error has been emitted and the session holds no peer
\* connection, no live local tracks, no stats timer and no descriptor.
C3_PublisherFailureCleansUp ==
  [][RejectedPastGuard(last', {"start", "publish"})
       => (CleanedUp /\ Emitted(last', "error"))]_vars

\* a publish() that failed at the last step, applying the answer, after the
\* gateway had issued a descriptor: a connection was closed, tracks were stopped
W_C3_PublishFailedAtAnswer ==
  /\ last.op = "publish" /\ last.res = "rejected" /\ last.at = "setRemote"
  /\ streamStartResponse # NoDesc
  /\ \E i \in PcIds : pcs[i] = "closed"
  /\ \E j \in MsIds : tracks[j] = "ended"

\* C4: when stop() of a publisher with an active session settles, cleanup is
\* complete and the state is disconnected, for every outcome of the
\* control-plane stop request (2xx, 404, another status, network failure).
C4_StopAlwaysCleansUp ==
  [][(last'.op = "stop" /\ last'.res \in {"resolved", "rejected"})
       => (CleanedUp /\ connectionStatus' = "disconnected")]_vars

\* a stop() whose request failed at the network level while the session held
\* a connection and live tracks
W_C4_StopAfterNetworkFailure ==
  /\ last.op = "stop" /\ last.res = "rejected" /\ last.at = "network"
  /\ \E i \in PcIds : pcs[i] = "closed"
  /\ \E j \in MsIds : tracks[j] = "ended"

\* no start is active on the instance
NoActiveStart ==
  /\ ~last.active
  /\ CASE kind = "Stream" ->
            /\ streamInfo = NoDesc /\ connectionStatus = "disconnected"
            /\ InFlight({"start", "publish"}) = {}
       [] kind = "StreamViewer" ->
            /\ vConnectionStatus = "disconnected" /\ vPeerConnection = 0
            /\ InFlight({"vstart"}) = {}
       [] OTHER -> eventSource = "null" /\ ~isConnected

\* C5: stop() (disconnect() for the data stream) with no active start does
\* not throw, issues no network request, changes no state and emits nothing.
C5_StopWithoutStartIsNoop ==
  [][(NoActiveStart /\ IsStopCall(last'))
       => /\ last'.res # "rejected"
          /\ last'.req = ""
          /\ last'.emits = <<>>
          /\ UNCHANGED <<sessionFields, dataVars>>]_vars

C7_AllowedTransitions ==
  [][status' # status =>
       \/ status = "disconnected" /\ status' = "connecting" /\ IsStartCall(last')
       \/ status = "connecting" /\ status' = "connected"
       \/ status' = "error" /\ status \in {"connecting", "connected"} /\ IsFailure(last')
       \/ status' = "disconnected"
            /\ (IsFailure(last') \/ last'.op \in {"stop", "vstop"} \/ last'.res = "disconnected")]_vars

\* C8: after stop() has settled or start() has failed, neither getStreamInfo()
\* nor the configuration still holds a descriptor.
C8_DescriptorDestroyed ==
  ((last.op = "stop" /\ last.res \in {"resolved", "rejected"})
     \/ (last.op = "start" /\ last.res = "rejected" /\ last.at = "startStream"))
    => (getStreamInfo = NoDesc /\ streamStartResponse = NoDesc)

\* C9: at the step where the publisher enters connected or starts its stats
\* sampler, the control-plane start has succeeded and the WHIP answer is
\* applied to the session's peer connection.
C9_ConnectedOnlyAfterAnswer ==
  (kind = "Stream" /\ (Emitted(last, "statusChange:connected")
                         \/ (last.op = "start" /\ last.res = "resolved")))
    => /\ streamInfo # NoDesc
       /\ peerConnection # 0
       /\ pcs[peerConnection] \in {"stable", "connected", "disconnected", "failed"}

\* C10: no sampling tick emits a stats notification for a peer connection
\* that has been closed, a tick already awaiting getStats() included.
C10_NoStatsFromClosedConnection ==
  [][\A c \in InFlight({"tick", "vtick"}) :
       (CopiesIn(c, calls') < CopiesIn(c, calls) /\ Emitted(last', "statsUpdate"))
         => pcs[c.on] # "closed"]_vars

\* C11: at the step where a peer connection of a publisher or viewer session
\* reports failed, the session emits an error and has released everything:
\* stats timer cleared, no peer connection held, no local stream held.
C11_PcFailureCleansUp ==
  [][last'.res = "failed"
       => /\ Emitted(last', "error")
          /\ IF kind = "Stream"
               THEN ~statsInterval' /\ peerConnection' = 0 /\ localStream' = 0
               ELSE ~vStatsInterval' /\ vPeerConnection' = 0]_vars

\* ---- retryWithBackoff ----------------------------------------------------
\* the invocations made so far all failed with a retryable error
AllRetryableFailures ==
  /\ responses # <<>>
  /\ \A i \in 1..Len(responses) : fnOutcome(responses[i]) \in {"Error", "string"}
\* the outcome of the last invocation
LastOutcome == fnOutcome(responses[Len(responses)])

\* C12 as stated: for maxRetries >= 1, once retry has settled after an
\* operation that failed on every call with a retryable error, the operation
\* was invoked exactly maxRetries times and retry rejected with the value the
\* last invocation threw, not a wrapper of it.
C12_ExhaustionRethrowsLastError ==
  (kind = "retryWithBackoff" /\ maxRetries >= 1 /\ settled.res # "pending"
     /\ AllRetryableFailures)
    => /\ fnCalls = maxRetries
       /\ settled.res = "rejected"
       /\ settled.err.by = maxRetries
       /\ ~settled.err.wrapped

\* C12 amended: the same, except that retry rejects with the last thrown value
\* itself exactly when it is an Error instance; a thrown value that is not an
\* Error instance is delivered as a new Error made from its string form.
C12_ExhaustionRethrowsLastErrorNormalised ==
  (kind = "retryWithBackoff" /\ maxRetries >= 1 /\ settled.res # "pending"
     /\ AllRetryableFailures)
    => /\ fnCalls = maxRetries
       /\ settled.res = "rejected"
       /\ settled.err.by = maxRetries
       /\ ~settled.err.nonRetryable
       /\ settled.err.wrapped <=> (LastOutcome = "string")

\* three attempts, each failing with an Error instance, then the rejection
W_C12_ThreeFailuresThenRejected ==
  /\ kind = "retryWithBackoff" /\ maxRetries = 3
  /\ responses = <<"Error", "Error", "Error">>
  /\ settled.res = "rejected" /\ settled.err.by = 3

C15_BackoffDelay ==
  kind \in RetryKinds =>
    \A k \in 1..Len(sleeps) :
      /\ k < maxRetries
      /\ sleeps[k] <= maxDelay
      /\ sleeps[k] = (IF initialDelay * pow(backoffMultiplier, k - 1) <= maxDelay
                        THEN initialDelay * pow(backoffMultiplier, k - 1)
                        ELSE maxDelay)

\* two sleeps, the first below the cap and the second cut to it
W_C15_SecondDelayCapped ==
  /\ kind = "retryWithBackoff" /\ Len(sleeps) = 2
  /\ sleeps[1] < maxDelay /\ sleeps[2] = maxDelay
  /\ initialDelay * backoffMultiplier > maxDelay

\* C16: when retry has resolved or rejected, no timer of its sleeps is
\* pending, and every sleep it took was followed by another invocation: none
\* after the final attempt, none after a nonRetryable error.
C16_NoTimerLeftPending ==
  (kind \in RetryKinds /\ settled.res # "pending")
    => /\ timers = 0
       /\ Len(sleeps) = (IF fnCalls = 0 THEN 0 ELSE fnCalls - 1)

\* retry rejected after its last allowed attempt, having slept between attempts
W_C16_RejectedAfterSleeps ==
  /\ kind \in RetryKinds /\ settled.res = "rejected"
  /\ fnCalls = maxRetries /\ Len(sleeps) = 2 /\ timers = 0

\* ---- sendWhipOffer / sendWhepOffer ---------------------------------------
SendKinds == {"sendWhipOffer", "sendWhepOffer"}
is4xx(r) == r.status >= 400 /\ r.status < 500
is5xx(r) == r.status >= 500
\* the i-th request was the last one and the call has rejected
EndsCallAt(i) == i = Len(responses) /\ rPc = "done" /\ settled.res = "rejected"
\* the i-th request is followed by another one (made, or due after the sleep)
\* unless it used the last attempt
RetriedAfter(i) == i < maxRetries => (i < Len(responses) \/ rPc \in {"sleep", "fn"})

\* C14 as stated: in the WHIP and WHEP send paths a 4xx response is the last
\* request of the call, and a 5xx response or any network-level failure of
\* fetch() is followed by a retry while attempts remain.
C14_ClientErrorsEndServerErrorsRetry ==
  kind \in SendKinds =>
    \A i \in 1..Len(responses) :
      /\ is4xx(responses[i]) => EndsCallAt(i)
      /\ (is5xx(responses[i]) \/ rejected(responses[i])) => RetriedAfter(i)

\* C14 amended: a 4xx response, or a fetch() rejection whose message contains
\* 'Network', is the last request of the call; a 5xx response or any other
\* fetch() rejection is followed by a retry while attempts remain.
C14_MarkedEndRestRetry ==
  kind \in SendKinds =>
    \A i \in 1..Len(responses) :
      /\ (is4xx(responses[i])
            \/ (rejected(responses[i]) /\ mentionsNetwork(responses[i].message)))
           => EndsCallAt(i)
      /\ (is5xx(responses[i])
            \/ (rejected(responses[i]) /\ ~mentionsNetwork(responses[i].message)))
           => RetriedAfter(i)

\* a WHIP send that was retried after a 500 and ended by a 404
W_C14_ServerErrorThenClientError ==
  /\ kind = "sendWhipOffer" /\ maxRetries = 3
  /\ Len(responses) = 2
  /\ responses[1].status = 500 /\ responses[2].status = 404
  /\ settled.res = "rejected" /\ Len(sleeps) = 1

\* ---- control plane -------------------------------------------------------
\* C17: an invocation of startStream, stopStream, sendStreamUpdate or
\* fetchStreamStatus has made exactly one fetch() call when it settles and
\* never more than one before, whatever the response or failure.
C17_ControlPlaneSingleRequest ==
  kind \in ControlKinds =>
    /\ fetches <= 1
    /\ rPc \in {"fetch", "done"} => fetches = 1
    /\ rPc = "done" => (Len(responses) = 1 /\ settled.res # "pending")

\* a stop request answered 500: the function has thrown after its one request
W_C17_StopRejectedOnServerError ==
  /\ kind = "stopStream" /\ rPc = "done"
  /\ responses[1].status = 500
  /\ settled.res = "rejected" /\ fetches = 1

\* ---- Stream.stop and the stop URL ----------------------------------------
\* C18: a stop() call on a publisher whose descriptor came from a successful
\* start() issues the control-plane stop request (one, to the stop URL of that
\* descriptor).
C18_StopAfterStartSendsRequest ==
  [][(kind = "Stream" /\ streamInfo \in GatewayDescs /\ streamStartResponse = streamInfo
        /\ last'.op = "stop" /\ IsStopCall(last'))
       => (last'.req = "stop" /\ getStreamStopUrl # "")]_vars

\* ---- StreamConfig --------------------------------------------------------
\* the step recorded a descriptor in the configuration: start() succeeded, or
\* the caller handed one over
RecordsDescriptor(l) == (l.op = "start" /\ l.res = "resolved") \/ l.op = "config"

\* C19 as stated: no step of a session changes a field of the configuration
\* other than the descriptor it holds (the location of the ingest response
\* counted with it).
C19_ConfigOnlyRecordsDescriptor ==
  [][UNCHANGED <<gatewayUrl, defaultPipeline, iceServers, eTag>>]_vars

\* C19 amended: gatewayUrl, defaultPipeline and iceServers never change; the
\* descriptor changes only when it is recorded; the WHIP response metadata
\* (location, eTag, link, playbackUrl) changes only when publish() resolves.
C19_ConfigRecordsDescriptorAndWhipMetadata ==
  [][/\ UNCHANGED <<gatewayUrl, defaultPipeline, iceServers>>
     /\ streamStartResponse' # streamStartResponse => RecordsDescriptor(last')
     /\ (location' # location \/ eTag' # eTag)
          => (last'.op = "publish" /\ last'.res = "resolved")]_vars

\* a stopped publisher whose configuration still carries the metadata of the
\* WHIP response and the descriptor of the start
W_C19_MetadataKeptAfterStop ==
  /\ kind = "Stream" /\ last.op = "stop" /\ last.res = "resolved"
  /\ eTag = "etag" /\ location = "loc"
  /\ streamStartResponse \in GatewayDescs

\* ---- DataStreamClient.connect --------------------------------------------
\* C20: a connect() call on a data-stream session that is connected (or still
\* holds its EventSource) is rejected and changes neither the connection nor
\* the log; and the instance never has more than one open EventSource.
C20_SingleSseConnection ==
  [][/\ (last'.op = "connect" /\ (isConnected \/ eventSource # "null"))
          => (last'.res = "rejected" /\ UNCHANGED dataVars)
     /\ openSources' <= 1]_vars

\* a connect() refused while the connection is open and has logged a message
W_C20_SecondConnectRefused ==
  /\ kind = "DataStreamClient"
  /\ last.op = "connect" /\ last.res = "rejected"
  /\ isConnected /\ eventSource = "open" /\ Len(logs) >= 1 /\ openSources = 1

\* ---- DataStreamClient log ------------------------------------------------
\* C21: the number of retained log entries never exceeds the configured
\* maxLogs, and an append over the bound evicts exactly the oldest entry, so
\* the log holds the most recent entries in arrival order.
C21_LogNeverExceedsMaxLogs ==
  [][kind = "DataStreamClient" =>
       /\ Len(logs') <= maxLogs'
       /\ last'.op = "onmessage" =>
            /\ logs'[Len(logs')].id = logCounter
            /\ \A i \in 1..(Len(logs') - 1) :
                 logs'[i] = logs[i + (Len(logs) + 1 - Len(logs'))]]_vars

\* ---- DataStreamClient error signal ---------------------------------------
\* C22: on the transport's error signal the session emits one error and then
\* one disconnected notification, closes its EventSource and reports
\* not-connected; and an EventSource only ever comes from a connect() call.
C22_ErrorThenDisconnect ==
  [][kind = "DataStreamClient" =>
       /\ last'.op = "onerror" =>
            /\ last'.emits = <<"error", "disconnected">>
            /\ eventSource' = "null" /\ openSources' = 0
            /\ ~isConnected'
       /\ (eventSource = "null" /\ eventSource' # "null") => last'.op = "connect"
       /\ (~isConnected /\ isConnected') => (eventSource = "connecting" /\ last'.op = "onopen")]_vars

\* the error signal arrived on an open connection that had logged a message
W_C22_ErrorOnOpenConnection ==
  /\ kind = "DataStreamClient"
  /\ last.op = "onerror" /\ Len(logs) >= 1
  /\ eventSource = "null" /\ ~isConnected

\* ---- DataStreamClient unparsable message ---------------------------------
\* C23: a message whose payload is not valid JSON makes no exception leave
\* the handler; it adds exactly one log entry, of type 'raw', carrying the
\* original text and the parse error message, and emits no data event.
C23_InvalidJsonLoggedRaw ==
  [][onmessage("invalid") =>
       /\ last'.res = "event" /\ last'.emits = <<>>
       /\ logCounter' = logCounter + 1
       /\ Len(logs') >= 1
       /\ logs'[Len(logs')] =
            [id |-> logCounter, type |-> "raw", raw |-> "invalid", error |-> "SyntaxError"]
       /\ \A i \in 1..(Len(logs') - 1) : \E j \in 1..Len(logs) : logs'[i] = logs[j]]_vars

\* an unparsable message logged after a parsed one
W_C23_RawAfterParsed ==
  /\ kind = "DataStreamClient"
  /\ Len(logs) = 2
  /\ logs[1].type = "custom" /\ logs[2].type = "raw" /\ logs[2].error = "SyntaxError"

\* ---- DataStreamClient.connect resolution ---------------------------------
\* C24: once connect() has resolved successfully the session reports
\* connected (getConnectionStatus() is true) and 'connected' has been emitted.
C24_ResolvedConnectIsConnected ==
  [][(last'.op = "connect" /\ last'.res = "resolved") => isConnected']_vars

\* ---- Stream.update -------------------------------------------------------
\* the step is a call of update(), with these options.params
IsUpdateCall(l) == l.op = "update" /\ l.at # "sendStreamUpdate"
keys(ps) == {p[1] : p \in ps}
HasActiveStream == streamInfo # NoDesc /\ streamInfo.updateUrl # "" /\ streamInfo.streamId # ""
HasPipeline == currentPipeline # NoPipeline \/ defaultPipeline # NoPipeline

\* C25: an update() call that supplies nothing but width and height sends no
\* request and rejects; when the call gets as far as stripping them (the
\* session has an active descriptor) the error is INVALID_UPDATE_PARAMS, and
\* otherwise it is the active-session check's 'No active stream to update'.
C25_OnlyImmutableParamsRejected ==
  [][(IsUpdateCall(last') /\ keys(params') \subseteq {"width", "height"}) =>
       /\ last'.res = "rejected"
       /\ requests' = requests
       /\ updateError' = IF HasActiveStream THEN InvalidUpdateParams ELSE NoActiveStream]_vars

\* update({params: {width, height}}) refused on a started session
W_C25_WidthHeightOnlyRefused ==
  /\ kind = "Stream.update"
  /\ HasActiveStream /\ HasPipeline
  /\ IsUpdateCall(last) /\ keys(params) = {"width", "height"}
  /\ updateError.code = "INVALID_UPDATE_PARAMS" /\ requests = <<>>

\* C26: a request sent by update() carries exactly the supplied key/value
\* pairs other than width and height, to the update endpoint of the
\* descriptor; no request ever carries width or height; and every call on an
\* active session with a pipeline and a mutable parameter sends one request.
C26_SendsParamsWithoutWidthHeight ==
  [][IsUpdateCall(last') =>
       /\ last'.res = "called" =>
            /\ Len(requests') = Len(requests) + 1
            /\ requests'[Len(requests')].updateData =
                 {p \in params' : p[1] # "width" /\ p[1] # "height"}
            /\ requests'[Len(requests')].updateUrl = streamInfo.updateUrl
       /\ \A i \in 1..Len(requests') :
            /\ keys(requests'[i].updateData) \cap {"width", "height"} = {}
            /\ requests'[i].updateData # {}
       /\ (HasActiveStream /\ HasPipeline /\ ~(keys(params') \subseteq {"width", "height"}))
            => last'.res = "called"]_vars

\* update({params: {width, height, prompts}}) sent {prompts} only
W_C26_PromptsSentAlone ==
  /\ kind = "Stream.update"
  /\ IsUpdateCall(last) /\ last.res = "called"
  /\ keys(params) = {"width", "height", "prompts"}
  /\ requests[Len(requests)].updateData = {<<"prompts", "keep-me">>}

\* C27: update() sends no request and rejects when the session has no active
\* descriptor, and also when neither start options nor configuration supply
\* a pipeline name; a call that gets as far as resolving the pipeline (active
\* descriptor, a mutable parameter left) rejects with the error that names
\* config.defaultPipeline.
C27_UpdateNeedsSessionAndPipeline ==
  [][IsUpdateCall(last') =>
       /\ (~HasActiveStream \/ ~HasPipeline) =>
            (last'.res = "rejected" /\ requests' = requests /\ uPc' = "idle")
       /\ ~HasActiveStream => updateError' = NoActiveStream
       /\ (HasActiveStream /\ ~HasPipeline /\ ~(keys(params') \subseteq {"width", "height"}))
            => updateError' = NoPipelineConfigured]_vars

\* update({params: {prompts}}) refused on a started session without pipeline
W_C27_NoPipelineRefused ==
  /\ kind = "Stream.update"
  /\ HasActiveStream /\ ~HasPipeline
  /\ IsUpdateCall(last) /\ keys(params) = {"prompts"}
  /\ updateError = NoPipelineConfigured /\ requests = <<>>

\* ---- sendWhepOffer -------------------------------------------------------
\* the i-th failed invocation of the operation answered responses[FailedAt(i)]
RECURSIVE FailedUpTo(_)
FailedUpTo(n) == IF n = 0 THEN <<>>
                 ELSE IF fnOutcome(responses[n]) = "ok" THEN FailedUpTo(n - 1)
                 ELSE Append(FailedUpTo(n - 1), responses[n])

\* C28 as stated: the WHEP offer succeeds only on status 200; every other
\* status is a failure whose error embeds the status and the readable body.
C28_WhepSuccessOnly200 ==
  kind = "sendWhepOffer" =>
    /\ \A i \in 1..Len(responses) :
         (~rejected(responses[i]) /\ responses[i].status # 200) =>
            fnOutcome(responses[i]) # "ok"
    /\ settled.res = "resolved" => responses[Len(responses)].status = 200

\* C28 amended: the WHEP offer succeeds exactly on a 2xx status
\* (response.ok); every other status is a failure whose error embeds the
\* status code and, when it can be read and is not empty, the response body.
C28_WhepSuccessOnAny2xx ==
  kind = "sendWhepOffer" =>
    /\ settled.res = "resolved" =>
         (responses[Len(responses)].status \in 200..299 /\ rPc = "done")
    /\ \A i \in 1..Len(responses) :
         (i < Len(responses) \/ settled.res = "rejected") =>
            (rejected(responses[i]) \/ responses[i].status \notin 200..299)
    /\ Len(errorMessages) = Len(FailedUpTo(Len(responses)))
    /\ \A i \in 1..Len(errorMessages) :
         LET r == FailedUpTo(Len(responses))[i]
         IN  ~rejected(r) =>
               /\ errorMessages[i].status = r.status
               /\ errorMessages[i].response =
                    (IF r.body = "unreadable" THEN "" ELSE r.body)

\* the offer failed on 500 with a readable body, then was accepted with 201
W_C28_AcceptedWith201AfterServerError ==
  /\ kind = "sendWhepOffer"
  /\ settled.res = "resolved"
  /\ Len(responses) = 2
  /\ responses[1].status = 500 /\ responses[1].body = "no such session"
  /\ responses[2].status = 201
  /\ errorMessages[1].response = "no such session"

\* ---- Stream.parseStats ---------------------------------------------------
\* k is n / d rounded to the nearest integer, halves upwards (d > 0)
IsRounded(k, n, d) == 2 * d * k <= 2 * n + d /\ 2 * n + d < 2 * d * (k + 1)
\* the step parsed an outbound video report; dt in ms since the prior sample
ParsedReport == last'.op = "parseStats" /\ report'.type = "outbound-rtp"
HasPrior == lastStats.time > 0
\* with dt ms between the samples: D * 8 / (dt / 1000) / 1000 = 8 D / dt and
\* F / (dt / 1000) = 1000 F / dt
RatesFromDeltas ==
  LET dt == now' - lastStats.time
      D  == report'.bytesSent - lastStats.bytes
      F  == report'.framesEncoded - lastStats.frameCount
  IN  /\ IsRounded(connectionStats'.bitrate, 8 * D, dt)
      /\ IsRounded(connectionStats'.fps, 1000 * F, dt)

\* C29 as stated: two consecutive samples dt > 0 apart give bitrate
\* round(D*8/dt/1000) and fps round(F/dt); with no prior sample bitrate and
\* fps are 0 and the resolution is the empty string.
C29_StatsFromDeltas ==
  [][ParsedReport =>
       /\ (HasPrior /\ now' > lastStats.time) => RatesFromDeltas
       /\ ~HasPrior => /\ connectionStats'.bitrate = 0 /\ connectionStats'.fps = 0
                       /\ connectionStats'.resolution = <<>>]_vars

\* C29 amended: two consecutive samples dt > 0 apart give bitrate
\* round(D*8/dt/1000) and fps round(F/dt); with no prior sample (or dt = 0)
\* bitrate and fps are 0; the resolution is "WxH" of the current report
\* whenever it carries a frame size, prior sample or not, and empty otherwise.
C29_StatsFromDeltasResolutionFromReport ==
  [][ParsedReport =>
       /\ (HasPrior /\ now' > lastStats.time) => RatesFromDeltas
       /\ (~HasPrior \/ now' = lastStats.time) =>
            (connectionStats'.bitrate = 0 /\ connectionStats'.fps = 0)
       /\ connectionStats'.resolution =
            (IF report'.frameWidth # 0 /\ report'.frameHeight # 0
               THEN <<report'.frameWidth, report'.frameHeight>> ELSE <<>>)]_vars

\* the second of two samples one second apart: 2063 more bytes, 20 more
\* frames give 17 kbps (16.504 rounded) at 20 fps
W_C29_SecondSampleRounded ==
  /\ kind = "parseStats"
  /\ samples = 2 /\ report.type = "outbound-rtp" /\ report.bytesSent = 2 * 2063
  /\ lastStats.time = 2000
  /\ connectionStats = [bitrate |-> 17, fps |-> 20, resolution |-> <<640, 480>>]

\* ---- waitForICEGathering -------------------------------------------------
\* C30: the wait for ICE gathering always completes: a pending wait is never
\* older than 3 seconds, it leads to a resolved promise, and the promise
\* resolves at the end-of-candidates event or at 3 seconds, whichever is first.
C30_IceWaitCompletes ==
  /\ [](icePc = "waiting" => (clock <= IceTimeoutMs /\ iceTimer = "pending"))
  /\ [](icePc = "resolved" => resolvedAt <= IceTimeoutMs)
  /\ (icePc = "waiting") ~> (icePc = "resolved")

\* the browser found candidates but never signalled the end: the wait was
\* resolved by its timer at 3 seconds
W_C30_ResolvedByTimeout ==
  /\ kind = "waitForICEGathering"
  /\ icePc = "resolved" /\ iceTimer = "fired" /\ resolvedAt = 3000
  /\ gathering = "gathering" /\ candidates = MaxCandidates

\* ---- DataStreamClient log lifecycle --------------------------------------
\* C31: every received message appends exactly one log entry; entries leave
\* the log only by eviction of the oldest on an append or by clearLogs();
\* connect(), the open event, disconnect() and a transport error leave the
\* log as it was.
C31_LogChangesOnlyByMessageOrClear ==
  [][kind = "DataStreamClient" =>
       /\ last'.op = "onmessage" =>
            /\ logs' # <<>> /\ logs'[Len(logs')].id = logCounter
            /\ \/ SubSeq(logs', 1, Len(logs') - 1) = logs
               \/ SubSeq(logs', 1, Len(logs') - 1) = Tail(logs)
       /\ last'.op \in {"connect", "onopen", "disconnect", "onerror"} => logs' = logs
       /\ logs' # logs => last'.op \in {"onmessage", "clearLogs"}]_vars

\* a log of two entries kept through a transport error and a reconnection
W_C31_LogKeptAcrossReconnect ==
  /\ kind = "DataStreamClient"
  /\ last.op = "connect" /\ last.res = "resolved"
  /\ Len(logs) = 2 /\ delivered = 2

\* C32: log entry ids are strictly increasing in arrival order over the
\* whole lifetime of the instance: the id the next entry will get never goes
\* down, also not after clearLogs() or across reconnects.
C32_IdsNeverReissued ==
  [][kind = "DataStreamClient" =>
       /\ logCounter' >= logCounter
       /\ \A i \in 1..Len(logs') : logs'[i].id < logCounter']_vars

\* ---- stop() --------------------------------------------------------------
\* C33: when stop() of a publisher or viewer resolves, the state is
\* disconnected and the session holds no peer connection, no local stream
\* with live tracks and no stats timer, whatever came before the call.
C33_ResolvedStopHoldsNothing ==
  [][(last'.op \in {"stop", "vstop"} /\ last'.res \in {"resolved", "noop"}) =>
       IF kind = "Stream"
         THEN /\ connectionStatus' = "disconnected"
              /\ peerConnection' = 0 /\ localStream' = 0 /\ ~statsInterval'
         ELSE /\ vConnectionStatus' = "disconnected"
              /\ vPeerConnection' = 0 /\ ~vStatsInterval']_vars

\* C34: whenever a publisher or viewer session is disconnected and none of its
\* operations is in flight, it holds no peer connection, no live local tracks
\* and no running stats timer.
C34_DisconnectedIdleHoldsNothing ==
  (kind \in {"Stream", "StreamViewer"} /\ status = "disconnected" /\ BagToSet(calls) = {})
    => IF kind = "Stream"
         THEN /\ peerConnection = 0 /\ ~statsInterval
              /\ (localStream = 0 \/ tracks[localStream] = "ended")
         ELSE vPeerConnection = 0 /\ ~vStatsInterval

\* C35: whenever a viewer session is connected it holds an open peer
\* connection, in every interleaving of start() and stop().
C35_ConnectedViewerHoldsOpenPc ==
  (kind = "StreamViewer" /\ vConnectionStatus = "connected")
    => (vPeerConnection # 0 /\ pcs[vPeerConnection] # "closed")

\* C36: a failure of the control-plane stop request is not propagated: stop()
\* on an active publisher never rejects.
C36_StopNeverRejects ==
  [][(last'.op = "stop" /\ streamInfo # NoDesc) => last'.res # "rejected"]_vars

\* C37: the first stats sample of every session lifetime has no prior sample
\* (and so reports bitrate 0 and fps 0): when start() is accepted, on a fresh
\* instance or after an earlier session was stopped or failed, the running
\* StatSample of the instance is blank.
C37_SessionStartsWithBlankSample ==
  [][(last'.op \in {"start", "vstart"} /\ last'.res = "called")
       => IF kind = "Stream" THEN lastStats'.time = 0 ELSE vLastStats'.time = 0]_vars

\* C38: for any options, a maximum attempt count of zero or less included,
\* a settled retry has invoked the operation at least once, and when it
\* rejected, the error stems from an invocation of the operation, not from
\* the retry controller.
C38_RetryInvokesAndRethrowsOperationError ==
  (kind \in RetryKinds /\ rPc = "done")
    => /\ fnCalls >= 1
       /\ settled.res = "rejected" => settled.err.by >= 1

\* C39: after a transport error has disconnected a data-stream session, a
\* connect() call on the same instance is accepted and opens a new SSE
\* connection: the error leaves nothing behind that refuses it.
C39_ConnectAcceptedAfterTransportError ==
  [][kind = "DataStreamClient" =>
       /\ last'.op = "onerror" => (eventSource' = "null" /\ ~isConnected')
       /\ (last.op = "onerror" /\ last'.op = "connect")
            => /\ last'.res = "resolved" /\ last'.req = "sse"
               /\ eventSource' = "connecting" /\ openSources' = 1]_vars

\* a connect() accepted on an instance whose earlier connection had logged a
\* message and was ended by a transport error
W_C39_ReconnectedAfterError ==
  /\ kind = "DataStreamClient"
  /\ errored /\ Len(logs) >= 1
  /\ last.op = "connect" /\ last.res = "resolved"
  /\ eventSource = "connecting" /\ openSources = 1

\* C40: the WHIP offer is sent only while a session descriptor is present:
\* publish() never issues the WHIP POST without one, that is, to the empty
\* ingest URL getWhipUrl() gives for an absent descriptor.
C40_WhipOfferNeedsDescriptor ==
  [][(last'.op = "publish" /\ last'.req = "whip") => streamStartResponse # NoDesc]_vars

====
